---- MODULE Spec2Model ----
(***************************************************************************)
(* A model of the code-snippet packer: main() validates its arguments,     *)
(* lists the files, packs one snippet per file into token-bounded chunks   *)
(* and writes one output file per chunk.  Text sizes are character counts; *)
(* estimate_tokens turns them into tokens as the code does (len // 3).     *)
(*                                                                         *)
(* Spec is main(); SpecCompress is one call of compress_content, with the  *)
(* compressors run line by line.  A text is a sequence of lexical tokens:  *)
(* NL is the newline, IND a run of leading whitespace; the tokens of       *)
(* GluedLeft are written without a space before them, every other token    *)
(* is separated from the one before it by a space.                         *)
(***************************************************************************)
EXTENDS Integers, Sequences, FiniteSets, TLC

VARIABLES
    pc,                      \* position of main(), or of the caller of compress_content
    max_tokens,              \* args.max_tokens
    start_num,               \* args.start_num
    include_tree,            \* args.include_tree
    folder,                  \* state of args.folder_path: "dir", "file", "missing"
    folder_path,             \* length of args.folder_path as it was typed
    root_tag,                \* length of args.root_tag
    access,                  \* what opening and stat of each listed file will do
    files,                   \* code files in traversal order: length of each file's snippet
    paths,                   \* str(f) of each of them
    image_count,             \* len(image_files)
    tree_section,            \* None, or Some(length of the tree section text)
    images_section,          \* None, or Some(length of the images section text)
    idx,                     \* number of files the packing loop has consumed
    chunks,                  \* list of {'content', 'start_num', 'file_count'}
    current_chunk,           \* pending accumulator
    current_tokens,
    counter,
    chunk_file_count,
    large_standalone_files,  \* list of {'tokens', 'code_num'}
    written,                 \* output files in the order they were written
    cpc,                     \* position of a compress_content call
    language,                \* its language argument
    content,                 \* its content argument, a text
    loc,                     \* the local variables of the running compressor
    result,                  \* what compress_content returned
    changed_only,            \* args.changed_only
    uncommitted,             \* args.uncommitted
    commits,                 \* args.commits: None, or Some(count)
    pr,                      \* args.pr: None, or Some(target branch)
    changed_result,          \* what get_git_changed_files returned, or None
    branch_diff_result,      \* what get_branch_diff returned, or None
    diff_result,             \* what get_git_diff returned, or None
    logs_with_diffs_result,  \* what get_git_logs_with_diffs returned, or None
    git_queries,             \* the git queries made: name, exception inside, value returned
    git_file                 \* None, or Some(what write_git_file wrote)

\* the variables of main() other than its position
lvars == <<max_tokens, start_num, include_tree, folder, folder_path,
           root_tag, access, files, paths, image_count,
           tree_section, images_section, idx, chunks, current_chunk,
           current_tokens, counter, chunk_file_count, large_standalone_files,
           written>>

pvars == <<pc, max_tokens, start_num, include_tree, folder, folder_path,
           root_tag, access, files, paths, image_count,
           tree_section, images_section, idx, chunks, current_chunk,
           current_tokens, counter, chunk_file_count, large_standalone_files,
           written>>

cvars == <<cpc, language, content, loc, result>>

avars == <<changed_only, uncommitted, commits, pr>>

gvars == <<avars, changed_result, branch_diff_result, diff_result,
           logs_with_diffs_result, git_queries, git_file>>

vars == <<pvars, cvars, gvars>>

----------------------------------------------------------------------------
(* Bounds of the model *)

MaxFiles == 4

MaxLines == 3
\* the lines of a text for compress_kotlin, whose vocabulary is the largest
MaxKotlinLines == 2

SnippetLens == {300, 1200, 3000, 15000}
TreeLen == 600
ImagesLen == 300
MaxTokensArgs == {900, 1000, 2500}
\* a run with git options is tried with these lists of files, and with at
\* most this many commits
GitFileLists == {<<>>, <<1200>>, <<15000, 1200>>}
ChangedFileLists == GitFileLists \cup {<<1200, 300, 1200>>}
\* a run that meets unreadable files is tried with at most this many files;
\* the length of the snippet of an unreadable file
MaxReadFiles == 3
ReadSnippetLens == {1200, 15000}
SentinelSnippetLen == 240
\* lengths of the folder path and of the root tag: "." and about 1 kB typed
\* on the command line; 'code_snippets', the default, and a long name
DefaultFolderPathLen == 1
DefaultRootTagLen == 13
FolderPathLens == {DefaultFolderPathLen, 1100}
RootTagLens == {DefaultRootTagLen, 600}
MaxCommits == 2
StartNums == {1, 4}

----------------------------------------------------------------------------
(* Helpers *)

\* Python's None and a present value
None == <<>>

Some(x) == <<x>>

RECURSIVE SeqsUpTo(_, _)
SeqsUpTo(S, n) ==
    IF n = 0 THEN {<<>>}
    ELSE LET shorter == SeqsUpTo(S, n - 1)
         IN  shorter \cup {Append(s, x) : s \in {t \in shorter : Len(t) = n - 1}, x \in S}

RECURSIVE SumSeq(_)
SumSeq(s) == IF s = <<>> THEN 0 ELSE Head(s) + SumSeq(Tail(s))

RECURSIVE Flatten(_)
Flatten(ss) == IF ss = <<>> THEN <<>> ELSE Head(ss) \o Flatten(Tail(ss))

----------------------------------------------------------------------------
(* Program *)

estimate_tokens(len) == len \div 3

min_tokens == 1000

base_overhead_tokens == 500

\* tree_tokens = 0, then estimate_tokens(tree_section) if args.include_tree
tree_tokens == IF tree_section = None THEN 0 ELSE estimate_tokens(tree_section[1])

\* images_tokens = 0, then estimate_tokens(images_section) if image_files
images_tokens == IF images_section = None THEN 0 ELSE estimate_tokens(images_section[1])

first_chunk_overhead == base_overhead_tokens + tree_tokens + images_tokens

\* What the file system does with a listed file when the packing loop comes
\* to it: "ok"; "denied", open() raises and stat() works; "gone", the file is
\* no longer there and both raise
AccessKinds == {"ok", "denied", "gone"}

\* the text a snippet has in place of a file that could not be read
Sentinel == "<!-- Error reading file: [Errno 13] Permission denied -->"

\* get_file_content: f.read(), or the error comment if anything raises
get_file_content(i) == IF access[i] = "ok" THEN "text" ELSE Sentinel

\* file_path.stat().st_size raises
StatRaises(i) == access[i] = "gone"

\* create_code_snippet: the snippet of the file at position i, tagged <code{num}>
create_code_snippet(i, num) ==
    [src |-> i, num |-> num, content |-> get_file_content(i),
     len |-> IF access[i] = "ok" THEN files[i] ELSE SentinelSnippetLen]

snippet_tokens_of(snippet) == estimate_tokens(snippet.len)

\* current_overhead = first_chunk_overhead if is_first_chunk and not current_chunk
\*                    else base_overhead_tokens
current_overhead(chs, cur) ==
    IF Len(chs) = 0 /\ cur = <<>> THEN first_chunk_overhead ELSE base_overhead_tokens

ExceedsAlone_NoOverhead(snippet_tokens, overhead) == snippet_tokens > max_tokens

\* if snippet_tokens + current_overhead > args.max_tokens
ExceedsAlone(snippet_tokens, overhead) == snippet_tokens + overhead > max_tokens

ExceedsAdded_NoOverhead(cur_tokens, snippet_tokens, overhead, cur) ==
    cur_tokens + snippet_tokens > max_tokens /\ cur # <<>>

ExceedsAdded_Eager(cur_tokens, snippet_tokens, overhead, cur) ==
    cur_tokens + snippet_tokens + overhead >= max_tokens /\ cur # <<>>

\* if current_tokens + snippet_tokens + current_overhead > args.max_tokens and current_chunk
ExceedsAdded(cur_tokens, snippet_tokens, overhead, cur) ==
    cur_tokens + snippet_tokens + overhead > max_tokens /\ cur # <<>>

ChunkEntry_StartAtCounter(snippets, cnt, n) ==
    [content |-> snippets, start_num |-> cnt, file_count |-> n]

\* {'content': current_chunk, 'start_num': counter - chunk_file_count,
\*  'file_count': chunk_file_count}
ChunkEntry(snippets, cnt, n) ==
    [content |-> snippets, start_num |-> cnt - n, file_count |-> n]

SavePending_Drop(chs, cur, cnt, n) == chs

SavePending_Always(chs, cur, cnt, n) == Append(chs, ChunkEntry(cur, cnt, n))

\* if current_chunk: chunks.append({...})
SavePending(chs, cur, cnt, n) ==
    IF cur # <<>> THEN Append(chs, ChunkEntry(cur, cnt, n)) ELSE chs

(* Strings *)

\* A path or a line of output is a sequence of characters.
Whitespace == {" ", "\n"}

\* s.strip()
RECURSIVE str_lstrip(_)
str_lstrip(s) == IF s # <<>> /\ Head(s) \in Whitespace THEN str_lstrip(Tail(s)) ELSE s

RECURSIVE str_rstrip(_)
str_rstrip(s) ==
    IF s # <<>> /\ s[Len(s)] \in Whitespace THEN str_rstrip(SubSeq(s, 1, Len(s) - 1)) ELSE s

str_strip(s) == str_rstrip(str_lstrip(s))

\* s[n:] with n counted from 0
str_from(s, n) == SubSeq(s, n + 1, Len(s))

\* s.startswith(t), s.endswith(t), t in s
str_startswith(s, t) == Len(t) <= Len(s) /\ SubSeq(s, 1, Len(t)) = t

str_endswith(s, t) == Len(t) <= Len(s) /\ SubSeq(s, Len(s) - Len(t) + 1, Len(s)) = t

str_in(t, s) == \E n \in 0..(Len(s) - Len(t)) : SubSeq(s, n + 1, n + Len(t)) = t

\* s.split(sep): the pieces between the occurrences of sep, found left to right
RECURSIVE str_split_from(_, _, _)
str_split_from(s, sep, cur) ==
    IF s = <<>> THEN <<cur>>
    ELSE IF str_startswith(s, sep)
    THEN <<cur>> \o str_split_from(str_from(s, Len(sep)), sep, <<>>)
    ELSE str_split_from(Tail(s), sep, Append(cur, Head(s)))

str_split(s, sep) == str_split_from(s, sep, <<>>)

\* s.replace('\\', '/')
str_replace_backslash(s) == [n \in DOMAIN s |-> IF s[n] = "\\" THEN "/" ELSE s[n]]

(* Git queries *)

\* What one subprocess.run(['git', ...]) can do: return with exit status 0 and
\* some output ("ok") or none ("empty"); return with another exit status and
\* a message on stderr ("nonzero"), the message of a repository that has no
\* commits ("no_commits") or no message ("silent"); raise TimeoutExpired
\* ("timeout"), FileNotFoundError for want of a git executable ("missing"),
\* or another OSError ("oserror")
Exits == {"ok", "empty"}

Failures == {"nonzero", "no_commits", "silent"}

Exceptions == {"timeout", "missing", "oserror"}

Outcomes == Exits \cup Failures \cup Exceptions

\* the outcomes tried for a call inside a try block with one handler for every
\* exception but TimeoutExpired, and whose stderr the code reads
ReadOutcomes == Outcomes \ {"oserror"}

\* the same for a call whose stderr the code does not read
PlainOutcomes == ReadOutcomes \ {"no_commits", "silent"}

Raises(o) == o \in Exceptions

returncode(o) == IF o \in Exits THEN 0 ELSE 128

\* result.stdout.strip()
stdout(o) == IF o = "ok" THEN "out" ELSE ""

\* result.stderr.strip()
stderr(o) ==
    CASE o = "nonzero" -> "fatal: bad revision"
      [] o = "no_commits" -> "fatal: your current branch 'main' does not have any commits yet"
      [] OTHER -> ""

\* str(e)
str(e) ==
    CASE e = "missing" -> "[Errno 2] No such file or directory: 'git'"
      [] e = "oserror" -> "[Errno 13] Permission denied: 'git'"
      [] OTHER -> "Command '['git']' timed out"

\* the truth value of None or a string
Truthy(x) == x # None /\ x # Some("")

\* the truth value of None or a number
Nonzero(x) == x # None /\ x # Some(0)

\* is_git_repository: (is_repo, git_root, error); every exception is handled
is_git_repository(o) ==
    [query |-> "is_git_repository",
     exc |-> IF Raises(o) THEN o ELSE "none",
     escaped |-> "none",
     value |->
        IF ~Raises(o)
        THEN IF returncode(o) = 0
             THEN [is_repo |-> TRUE, git_root |-> Some(stdout(o)), error |-> None]
             ELSE [is_repo |-> FALSE, git_root |-> None, error |-> Some(stderr(o))]
        ELSE [is_repo |-> FALSE, git_root |-> None,
              error |-> Some(CASE o = "missing" -> "Git is not installed or not in PATH"
                               [] o = "timeout" -> "Git command timed out"
                               [] OTHER -> str(o))]]

\* except subprocess.TimeoutExpired: result['error'] = message
\* except Exception as e: result['error'] = str(e)
\* return result
Except(query, run, message) ==
    [query |-> query,
     exc |-> run.exc,
     escaped |-> "none",
     value |-> CASE run.exc = "none" -> run.result
                 [] run.exc = "timeout" -> [run.result EXCEPT !.error = Some(message)]
                 [] OTHER -> [run.result EXCEPT !.error = Some(str(run.exc))]]

\* the counts read from the last line of a stat text: the text of "ok" ends in
\* "1 file changed, 1 insertion(+), 1 deletion(-)"
StatCount(stat) == IF stat # "" THEN 1 ELSE 0

get_git_diff_try_SuccessEarly(o) ==
    LET initial == [success |-> FALSE, diff |-> "", stat |-> "", files_changed |-> 0,
                    insertions |-> 0, deletions |-> 0, error |-> None]
        stat_result == IF returncode(o[1]) # 0 THEN o[2] ELSE o[1]
        with_stat == [initial EXCEPT !.stat = stdout(stat_result),
                                    !.files_changed = StatCount(stdout(stat_result)),
                                    !.insertions = StatCount(stdout(stat_result)),
                                    !.deletions = StatCount(stdout(stat_result)),
                                    !.success = TRUE]
        diff_res == IF returncode(o[3]) # 0 THEN o[4] ELSE o[3]
    IN  IF Raises(o[1]) THEN [result |-> initial, exc |-> o[1]]
        ELSE IF returncode(o[1]) # 0 /\ Raises(o[2]) THEN [result |-> initial, exc |-> o[2]]
        ELSE IF Raises(o[3]) THEN [result |-> with_stat, exc |-> o[3]]
        ELSE IF returncode(o[3]) # 0 /\ Raises(o[4]) THEN [result |-> with_stat, exc |-> o[4]]
        ELSE [result |-> [with_stat EXCEPT !.diff = stdout(diff_res)], exc |-> "none"]

\* the try block of get_git_diff(path): 'git diff HEAD --stat', again without
\* HEAD if that fails, 'git diff HEAD', again without HEAD if that fails; o is
\* the outcome of each of the four calls
get_git_diff_try(o) ==
    LET initial == [success |-> FALSE, diff |-> "", stat |-> "", files_changed |-> 0,
                    insertions |-> 0, deletions |-> 0, error |-> None]
        stat_result == IF returncode(o[1]) # 0 THEN o[2] ELSE o[1]
        with_stat == [initial EXCEPT !.stat = stdout(stat_result),
                                    !.files_changed = StatCount(stdout(stat_result)),
                                    !.insertions = StatCount(stdout(stat_result)),
                                    !.deletions = StatCount(stdout(stat_result))]
        diff_res == IF returncode(o[3]) # 0 THEN o[4] ELSE o[3]
    IN  IF Raises(o[1]) THEN [result |-> initial, exc |-> o[1]]
        ELSE IF returncode(o[1]) # 0 /\ Raises(o[2]) THEN [result |-> initial, exc |-> o[2]]
        ELSE IF Raises(o[3]) THEN [result |-> with_stat, exc |-> o[3]]
        ELSE IF returncode(o[3]) # 0 /\ Raises(o[4]) THEN [result |-> with_stat, exc |-> o[4]]
        ELSE [result |-> [with_stat EXCEPT !.diff = stdout(diff_res), !.success = TRUE],
              exc |-> "none"]

get_git_diff(o) == Except("get_git_diff", get_git_diff_try(o), "Git diff command timed out")

\* the first of the 'git show' calls that raises, 0 if none does
RECURSIVE FirstRaising(_, _, _)
FirstRaising(shows, k, n) ==
    IF k > n THEN 0
    ELSE IF Raises(shows[k]) THEN k
    ELSE FirstRaising(shows, k + 1, n)

\* the try block of get_git_logs_with_diffs(path, count): 'git log' whose
\* output, if any, has n lines 'hash||date||subject', then one 'git show' for
\* each line; o is the outcome of 'git log', shows the outcomes of 'git show'
get_git_logs_with_diffs_try(o, n, shows) ==
    LET initial == [success |-> FALSE, commits |-> <<>>, commit_count |-> 0, error |-> None]
        error == IF stderr(o) # "" THEN stderr(o) ELSE "No commits found"
        commit(k) == [hash |-> k, date |-> "2025-01-01", subject |-> "subject",
                      diff |-> IF returncode(shows[k]) = 0 THEN stdout(shows[k]) ELSE ""]
        first == FirstRaising(shows, 1, n)
    IN  IF Raises(o) THEN [result |-> initial, exc |-> o]
        ELSE IF returncode(o) # 0
        THEN IF o = "no_commits"
             THEN [result |-> [initial EXCEPT !.success = TRUE], exc |-> "none"]
             ELSE [result |-> [initial EXCEPT !.error = Some(error)], exc |-> "none"]
        ELSE IF stdout(o) = ""
        THEN [result |-> [initial EXCEPT !.success = TRUE], exc |-> "none"]
        ELSE IF first # 0 THEN [result |-> initial, exc |-> shows[first]]
        ELSE [result |-> [initial EXCEPT !.commits = [k \in 1..n |-> commit(k)],
                                        !.commit_count = n,
                                        !.success = TRUE],
              exc |-> "none"]

get_git_logs_with_diffs(o, n, shows) ==
    Except("get_git_logs_with_diffs", get_git_logs_with_diffs_try(o, n, shows),
           "Git log command timed out")

\* f"Branch '{target_branch}' not found"
BranchNotFound(target_branch) ==
    IF target_branch = "main" THEN "Branch 'main' not found" ELSE "Branch not found"

\* the try block of get_branch_diff(path, target_branch), the second
\* definition of that name: 'git branch --show-current', 'git rev-parse
\* --verify', 'git diff target...HEAD --stat', 'git diff target...HEAD'; o is
\* the outcome of each of the four calls
get_branch_diff_try(target_branch, o) ==
    LET initial == [success |-> FALSE, diff |-> "", stat |-> "", current_branch |-> "",
                   target_branch |-> target_branch, files_changed |-> 0,
                   insertions |-> 0, deletions |-> 0, error |-> None]
        with_branch == IF returncode(o[1]) = 0
                       THEN [initial EXCEPT !.current_branch = stdout(o[1])]
                       ELSE initial
        with_stat == IF returncode(o[3]) = 0
                     THEN [with_branch EXCEPT !.stat = stdout(o[3]),
                                              !.files_changed = StatCount(stdout(o[3])),
                                              !.insertions = StatCount(stdout(o[3])),
                                              !.deletions = StatCount(stdout(o[3]))]
                     ELSE with_branch
        error == IF stderr(o[4]) # "" THEN stderr(o[4]) ELSE "Failed to get branch diff"
    IN  IF Raises(o[1]) THEN [result |-> initial, exc |-> o[1]]
        ELSE IF Raises(o[2]) THEN [result |-> with_branch, exc |-> o[2]]
        ELSE IF returncode(o[2]) # 0
        THEN [result |-> [with_branch EXCEPT !.error = Some(BranchNotFound(target_branch))],
              exc |-> "none"]
        ELSE IF Raises(o[3]) THEN [result |-> with_branch, exc |-> o[3]]
        ELSE IF Raises(o[4]) THEN [result |-> with_stat, exc |-> o[4]]
        ELSE IF returncode(o[4]) = 0
        THEN [result |-> [with_stat EXCEPT !.diff = stdout(o[4]), !.success = TRUE],
              exc |-> "none"]
        ELSE [result |-> [with_stat EXCEPT !.error = Some(error)], exc |-> "none"]

get_branch_diff(target_branch, o) ==
    Except("get_branch_diff", get_branch_diff_try(target_branch, o),
           "Git diff command timed out")

\* ' -> ' and '"'
Arrow == <<" ", "-", ">", " ">>

DoubleQuote == <<"\"">>

\* for line in status_result.stdout.strip().split('\n'): if not line: continue
status_lines(text) == SelectSeq(str_split(str_strip(text), <<"\n">>), LAMBDA line : line # <<>>)

\* filepath = line[3:].strip(), the new name of a renamed file, without quotes
status_filepath(line) ==
    LET filepath == str_strip(str_from(line, 3))
        renamed == IF str_in(Arrow, filepath) THEN str_split(filepath, Arrow)[2] ELSE filepath
    IN  IF str_startswith(renamed, DoubleQuote) /\ str_endswith(renamed, DoubleQuote)
        THEN SubSeq(renamed, 2, Len(renamed) - 1)
        ELSE renamed

\* staged_status = line[0], unstaged_status = line[1]
status_entries(text) ==
    LET lines == status_lines(text)
    IN  [n \in 1..Len(lines) |->
            [staged_status |-> lines[n][1], unstaged_status |-> lines[n][2],
             filepath |-> status_filepath(lines[n])]]

FilePaths(entries) == [n \in DOMAIN entries |-> entries[n].filepath]

IsUntracked(e) == e.staged_status = "?" /\ e.unstaged_status = "?"

\* the try block of get_git_changed_files(path): 'git status --porcelain',
\* whose standard output is text when it succeeds with output; every line of
\* it has its two status letters
get_git_changed_files_try(o, text) ==
    LET initial == [success |-> FALSE, files |-> {}, staged |-> <<>>, unstaged |-> <<>>,
                   untracked |-> <<>>, error |-> None]
        entries == status_entries(IF o = "ok" THEN text ELSE <<>>)
    IN  IF Raises(o) THEN [result |-> initial, exc |-> o]
        ELSE IF returncode(o) # 0
        THEN [result |-> [initial EXCEPT !.error = Some(stderr(o))], exc |-> "none"]
        ELSE [result |->
                [initial EXCEPT
                    !.files = {entries[n].filepath : n \in DOMAIN entries},
                    !.untracked = FilePaths(SelectSeq(entries, IsUntracked)),
                    !.staged = FilePaths(SelectSeq(entries, LAMBDA e :
                                   ~IsUntracked(e) /\ e.staged_status \notin {" ", "?"})),
                    !.unstaged = FilePaths(SelectSeq(entries, LAMBDA e :
                                   ~IsUntracked(e) /\ e.unstaged_status \notin {" ", "?"})),
                    !.success = TRUE],
              exc |-> "none"]

get_git_changed_files(o, text) ==
    Except("get_git_changed_files", get_git_changed_files_try(o, text),
           "Git status command timed out")

\* files = [f for f in files if any(str(f).replace('\\', '/').endswith(cf) or
\* cf in str(f).replace('\\', '/') for cf in changed_files_set)]
changed_only_filter(fs, changed_files_set) ==
    SelectSeq(fs, LAMBDA f :
        \E cf \in changed_files_set :
            \/ str_endswith(str_replace_backslash(f), cf)
            \/ str_in(cf, str_replace_backslash(f)))

\* result and result.get('success')
Succeeded(r) == r # None /\ r[1].success

\* the metadata lines write_git_file adds for the queries that succeeded
GitMetadata(diff, logs, branch) ==
    <<"source_folder", "generated_at">>
    \o (IF Succeeded(diff) THEN <<"uncommitted_diffs_included">> ELSE <<>>)
    \o (IF Succeeded(branch)
        THEN <<"branch_diff_included", "current_branch", "target_branch">>
        ELSE <<>>)
    \o (IF Succeeded(logs) THEN <<"commits_included", "commits_count">> ELSE <<>>)

GitSection_Always(tag, r, body) ==
    IF r # None
    THEN <<[tag |-> tag, error |-> None, body |-> body]>>
    ELSE <<>>

\* if result and result.get('success'): the element and its body
\* elif result and result.get('error'): the empty element with the error
GitSection(tag, r, body) ==
    IF Succeeded(r)
    THEN <<[tag |-> tag, error |-> None, body |-> body]>>
    ELSE IF r # None /\ Truthy(r[1].error)
    THEN <<[tag |-> tag, error |-> r[1].error, body |-> <<>>]>>
    ELSE <<>>

\* diff_content if diff_content else the words that stand for none
DiffBody(r, none) ==
    IF r = None THEN <<>> ELSE IF r[1].diff # "" THEN <<r[1].diff>> ELSE <<none>>

\* one <commit> element for each commit, '(no changes)' for an empty diff
CommitsBody(r) ==
    IF r = None THEN <<>>
    ELSE [k \in 1..Len(r[1].commits) |->
            IF r[1].commits[k].diff # "" THEN r[1].commits[k].diff ELSE "(no changes)"]

\* write_git_file: the metadata, then the sections for the branch diff, the
\* uncommitted changes and the commits
write_git_file(diff, logs, branch) ==
    [metadata |-> GitMetadata(diff, logs, branch),
     sections |->
        GitSection("branch_diff", branch, DiffBody(branch, "No changes between branches"))
        \o GitSection("uncommitted_changes", diff, DiffBody(diff, "No uncommitted changes"))
        \o GitSection("commits", logs, CommitsBody(logs))]

\* args.uncommitted or args.commits or args.pr
GitRequested == uncommitted \/ Nonzero(commits) \/ Truthy(pr)

\* the next of the three queries that was asked for, or the packing loop
AfterDiff == IF Nonzero(commits) THEN "git_commits" ELSE "pack"

AfterBranchDiff == IF uncommitted THEN "git_diff" ELSE AfterDiff

AfterRepository == IF Truthy(pr) THEN "git_pr" ELSE AfterBranchDiff

\* diff_result or logs_with_diffs_result or branch_diff_result, and one of
\* them with success
has_valid_git_data ==
    Succeeded(diff_result) \/ Succeeded(logs_with_diffs_result)
        \/ Succeeded(branch_diff_result)

----------------------------------------------------------------------------
(* main() *)

Init ==
    /\ pc = "validate"
    /\ max_tokens \in MaxTokensArgs
    /\ start_num \in StartNums
    /\ include_tree \in BOOLEAN
    /\ folder \in {"dir", "file", "missing"}
    /\ access = [i \in 1..MaxFiles |-> "ok"]
    /\ folder_path = DefaultFolderPathLen
    /\ root_tag = DefaultRootTagLen
    /\ files = <<>>
    /\ paths = <<>>
    /\ image_count = 0
    /\ tree_section = None
    /\ images_section = None
    /\ idx = 0
    /\ chunks = <<>>
    /\ current_chunk = <<>>
    /\ current_tokens = 0
    /\ counter = 0
    /\ chunk_file_count = 0
    /\ large_standalone_files = <<>>
    /\ written = <<>>
    /\ cpc = "idle"
    /\ language = ""
    /\ content = <<>>
    /\ loc = [f |-> "none"]
    /\ result = <<>>
    /\ changed_only = FALSE
    /\ uncommitted = FALSE
    /\ commits = None
    /\ pr = None
    /\ changed_result = None
    /\ branch_diff_result = None
    /\ diff_result = None
    /\ logs_with_diffs_result = None
    /\ git_queries = <<>>
    /\ git_file = None

InvalidConfiguration_PathOnly == folder # "dir"

\* not folder_path.exists(), not folder_path.is_dir(), args.max_tokens < min_tokens
InvalidConfiguration == folder # "dir" \/ max_tokens < min_tokens

\* the three tests of the arguments, each ending in sys.exit(1)
Validate ==
    /\ UNCHANGED <<cvars, gvars>>
    /\ pc = "validate"
    /\ pc' = IF InvalidConfiguration THEN "exit1"
             ELSE IF changed_only THEN "changed_only"
             ELSE "list"
    /\ UNCHANGED <<max_tokens, start_num, include_tree, folder, folder_path,
           root_tag, access, files, paths, image_count,
                   tree_section, images_section, idx, chunks, current_chunk,
                   current_tokens, counter, chunk_file_count,
                   large_standalone_files, written>>

\* the lists of code files the model tries
FileLists ==
    IF changed_only THEN ChangedFileLists
    ELSE IF GitRequested THEN GitFileLists
    ELSE IF \E i \in DOMAIN access : access[i] # "ok"
    THEN SeqsUpTo(ReadSnippetLens, MaxReadFiles)
    ELSE SeqsUpTo(SnippetLens, MaxFiles)

\* The folder of a run with --changed-only is the repository root "p" with
\* some of these files, in the order sorted() gives them; the folder of
\* another run has the files "f", "ff", "fff" and so on
PathA == <<"p", "/", "a", ".", "p", "y">>
PathAc == <<"p", "/", "a", ".", "p", "y", "c">>
PathB == <<"p", "/", "b", ".", "k", "t">>
PathBa == <<"p", "/", "b", "a", ".", "p", "y">>

ChangedListings == {<<>>, <<PathB>>, <<PathA, PathB>>, <<PathA, PathAc, PathB>>,
                    <<PathA, PathB, PathBa>>}

DefaultPath(k) == [n \in 1..k |-> "f"]

Listings ==
    IF changed_only THEN ChangedListings
    ELSE {[k \in 1..n |-> DefaultPath(k)] : n \in 0..MaxFiles}

\* what 'git status --porcelain' prints in the repository "p": a.py is
\* untracked; modified and not staged; staged, with b.kt modified; the new
\* name of o.py
StatusOutputs == {<<"?", "?", " ", "a", ".", "p", "y", "\n">>,
                  <<" ", "M", " ", "a", ".", "p", "y", "\n">>,
                  <<"M", " ", " ", "a", ".", "p", "y", "\n", " ", "M", " ", "b", ".", "k", "t", "\n">>,
                  <<"R", " ", " ", "o", ".", "p", "y", " ", "-", ">", " ", "a", ".", "p", "y", "\n">>}

\* #apply --changed-only filter if requested
Filtered(listing) ==
    IF changed_only /\ Succeeded(changed_result)
    THEN changed_only_filter(listing, changed_result[1].files)
    ELSE listing

\* the file list after the filters, split into code files and image files; the
\* tree and images sections; the packer's initial state
ListFiles ==
    /\ UNCHANGED <<cvars, gvars>>
    /\ pc = "list"
    /\ \E listing \in Listings, fs \in FileLists, n \in 0..1 :
          /\ Len(fs) = Len(Filtered(listing))
          /\ files' = fs
          /\ paths' = Filtered(listing)
          /\ image_count' = n
          /\ IF fs = <<>> /\ n = 0
             THEN /\ pc' = "exit0"
                  /\ UNCHANGED <<tree_section, images_section, counter>>
             ELSE /\ pc' = IF GitRequested THEN "git" ELSE "pack"
                  /\ tree_section' = IF include_tree THEN Some(TreeLen) ELSE None
                  /\ images_section' = IF n > 0 THEN Some(ImagesLen) ELSE None
                  /\ counter' = start_num
    /\ UNCHANGED <<max_tokens, start_num, include_tree, folder, folder_path,
           root_tag, access, idx, chunks,
                   current_chunk, current_tokens, chunk_file_count,
                   large_standalone_files, written>>

\* one iteration of the packing loop whose file exceeds the limit on its own
PackOversized ==
    /\ UNCHANGED <<cvars, gvars>>
    /\ pc = "pack"
    /\ idx < Len(files)
    /\ ~StatRaises(idx + 1)
    /\ LET snippet == create_code_snippet(idx + 1, counter)
           snippet_tokens == snippet_tokens_of(snippet)
           overhead == current_overhead(chunks, current_chunk)
       IN  /\ ExceedsAlone(snippet_tokens, overhead)
           /\ chunks' = Append(SavePending(chunks, current_chunk, counter, chunk_file_count),
                               [content |-> <<snippet>>, start_num |-> counter,
                                file_count |-> 1])
           /\ large_standalone_files' =
                  Append(large_standalone_files,
                         [tokens |-> snippet_tokens, code_num |-> counter])
    /\ current_chunk' = <<>>
    /\ current_tokens' = IF current_chunk # <<>> THEN 0 ELSE current_tokens
    /\ chunk_file_count' = IF current_chunk # <<>> THEN 0 ELSE chunk_file_count
    /\ counter' = counter + 1
    /\ idx' = idx + 1
    /\ UNCHANGED <<pc, max_tokens, start_num, include_tree, folder, folder_path,
           root_tag, access, files, paths,
                   image_count, tree_section, images_section, written>>

\* an iteration that does not reset current_tokens when it saves the chunk
PackAppend_KeepsTokens ==
    /\ UNCHANGED <<cvars, gvars>>
    /\ pc = "pack"
    /\ idx < Len(files)
    /\ ~StatRaises(idx + 1)
    /\ LET snippet == create_code_snippet(idx + 1, counter)
           snippet_tokens == snippet_tokens_of(snippet)
           overhead == current_overhead(chunks, current_chunk)
           flush == ExceedsAdded(current_tokens, snippet_tokens, overhead, current_chunk)
       IN  /\ ~ExceedsAlone(snippet_tokens, overhead)
           /\ chunks' = IF flush
                        THEN SavePending(chunks, current_chunk, counter, chunk_file_count)
                        ELSE chunks
           /\ current_chunk' = Append(IF flush THEN <<>> ELSE current_chunk, snippet)
           /\ current_tokens' = current_tokens + snippet_tokens
           /\ chunk_file_count' = (IF flush THEN 0 ELSE chunk_file_count) + 1
    /\ counter' = counter + 1
    /\ idx' = idx + 1
    /\ UNCHANGED <<pc, max_tokens, start_num, include_tree, folder, folder_path,
           root_tag, access, files, paths,
                   image_count, tree_section, images_section,
                   large_standalone_files, written>>

\* one iteration of the packing loop whose file goes into the accumulator
PackAppend ==
    /\ UNCHANGED <<cvars, gvars>>
    /\ pc = "pack"
    /\ idx < Len(files)
    /\ ~StatRaises(idx + 1)
    /\ LET snippet == create_code_snippet(idx + 1, counter)
           snippet_tokens == snippet_tokens_of(snippet)
           overhead == current_overhead(chunks, current_chunk)
           flush == ExceedsAdded(current_tokens, snippet_tokens, overhead, current_chunk)
       IN  /\ ~ExceedsAlone(snippet_tokens, overhead)
           /\ chunks' = IF flush
                        THEN SavePending(chunks, current_chunk, counter, chunk_file_count)
                        ELSE chunks
           /\ current_chunk' = Append(IF flush THEN <<>> ELSE current_chunk, snippet)
           /\ current_tokens' = (IF flush THEN 0 ELSE current_tokens) + snippet_tokens
           /\ chunk_file_count' = (IF flush THEN 0 ELSE chunk_file_count) + 1
    /\ counter' = counter + 1
    /\ idx' = idx + 1
    /\ UNCHANGED <<pc, max_tokens, start_num, include_tree, folder, folder_path,
           root_tag, access, files, paths,
                   image_count, tree_section, images_section,
                   large_standalone_files, written>>

\* one iteration of the packing loop in which create_code_snippet raises:
\* nothing in main() handles it
PackRaises ==
    /\ pc = "pack"
    /\ idx < Len(files)
    /\ StatRaises(idx + 1)
    /\ pc' = "crash"
    /\ UNCHANGED <<lvars, cvars, gvars>>

\* #add last chunk
AddLastChunk ==
    /\ UNCHANGED <<cvars, gvars>>
    /\ pc = "pack"
    /\ idx = Len(files)
    /\ chunks' = SavePending(chunks, current_chunk, counter, chunk_file_count)
    /\ pc' = IF has_valid_git_data THEN "write_git" ELSE "write"
    /\ UNCHANGED <<max_tokens, start_num, include_tree, folder, folder_path,
           root_tag, access, files, paths, image_count,
                   tree_section, images_section, idx, current_chunk, current_tokens,
                   counter, chunk_file_count, large_standalone_files, written>>

\* write_chunk: what one output file holds
write_chunk(content_lines, file_count, first_num, chunk_num, total_chunks, tree, images) ==
    [content |-> content_lines, file_count |-> file_count, start_num |-> first_num,
     chunk_num |-> chunk_num, total_chunks |-> total_chunks,
     includes_tree |-> tree # None, tree |-> tree, images |-> images]

\* len(str(n)) of a number that is not negative
RECURSIVE Digits(_)
Digits(n) == IF n < 10 THEN 1 ELSE 1 + Digits(n \div 10)

\* len('\n'.join(lines)) from the lengths of the lines
JoinLen(lines) == SumSeq(lines) + Len(lines) - 1

\* len('true'), len('false')
BoolLen(b) == IF b THEN 4 ELSE 5

\* '<?xml version="1.0" encoding="UTF-8"?>'; '%Y-%m-%dT%H:%M:%SZ'
XmlDeclLen == 38
TimestampLen == 20

\* create_metadata: the lengths of the lines of the metadata section, for a
\* run without --recursive and --compress
create_metadata(file_count, first_num, chunk_num, total_chunks, tree_included) ==
    <<12,
      19 + folder_path + 16,
      18 + TimestampLen + 15,
      16 + Digits(file_count) + 13,
      21 + Digits(first_num) + 18,
      15 + BoolLen(FALSE) + 12,
      19 + BoolLen(FALSE) + 16,
      19 + BoolLen(tree_included) + 16>>
    \o (IF chunk_num # None /\ total_chunks # None
        THEN <<11 + Digits(chunk_num[1]) + 1 + Digits(total_chunks[1]) + 8>>
        ELSE <<>>)
    \o <<13>>

\* write_chunk: the length of the text it writes, '\n'.join(xml_lines)
FileTextLen(w) ==
    JoinLen(<<XmlDeclLen, 1 + root_tag + 1,
              JoinLen(create_metadata(w.file_count, w.start_num, w.chunk_num,
                                      w.total_chunks, w.includes_tree))>>
            \o (IF w.tree # None THEN <<w.tree[1]>> ELSE <<>>)
            \o (IF w.images # None THEN <<w.images[1]>> ELSE <<>>)
            \o [k \in 1..Len(w.content) |-> w.content[k].len]
            \o <<2 + root_tag + 1>>)

\* if total_chunks == 1: the single output file
WriteSingle ==
    /\ UNCHANGED <<cvars, gvars>>
    /\ pc = "write"
    /\ Len(chunks) = 1
    /\ written' = <<write_chunk(chunks[1].content, chunks[1].file_count, start_num,
                                None, None, tree_section, images_section)>>
    /\ pc' = "done"
    /\ UNCHANGED <<max_tokens, start_num, include_tree, folder, folder_path,
           root_tag, access, files, paths, image_count,
                   tree_section, images_section, idx, chunks, current_chunk,
                   current_tokens, counter, chunk_file_count, large_standalone_files>>

chunk_tree_Every(i) == tree_section

\* for i, chunk in enumerate(chunks, 1): tree and images in the first chunk only
chunk_tree(i) == IF i = 1 THEN tree_section ELSE None

chunk_images(i) == IF i = 1 THEN images_section ELSE None

WriteMulti ==
    /\ UNCHANGED <<cvars, gvars>>
    /\ pc = "write"
    /\ Len(chunks) # 1
    /\ Len(written) < Len(chunks)
    /\ LET i == Len(written) + 1
           chunk == chunks[i]
       IN  written' = Append(written,
                             write_chunk(chunk.content, chunk.file_count, chunk.start_num,
                                         Some(i), Some(Len(chunks)),
                                         chunk_tree(i), chunk_images(i)))
    /\ UNCHANGED <<pc, max_tokens, start_num, include_tree, folder, folder_path,
           root_tag, access, files, paths, image_count,
                   tree_section, images_section, idx, chunks, current_chunk,
                   current_tokens, counter, chunk_file_count, large_standalone_files>>

WriteDone ==
    /\ UNCHANGED <<cvars, gvars>>
    /\ pc = "write"
    /\ Len(chunks) # 1
    /\ Len(written) = Len(chunks)
    /\ pc' = "done"
    /\ UNCHANGED <<max_tokens, start_num, include_tree, folder, folder_path,
           root_tag, access, files, paths, image_count,
                   tree_section, images_section, idx, chunks, current_chunk,
                   current_tokens, counter, chunk_file_count, large_standalone_files,
                   written>>

\* if args.changed_only: is_repo, git_root, git_error = is_git_repository(folder_path)
ChangedOnlyRepository ==
    /\ pc = "changed_only"
    /\ \E o \in Outcomes :
          LET r == is_git_repository(o)
          IN  /\ git_queries' = Append(git_queries, r)
              /\ pc' = IF r.escaped # "none" THEN "crash"
                       ELSE IF r.value.is_repo THEN "changed_files"
                       ELSE "list"
    /\ UNCHANGED <<lvars, cvars, avars, changed_result, branch_diff_result, diff_result,
                   logs_with_diffs_result, git_file>>

\* what get_git_changed_files returns for each outcome and output of its call
changed_files_results ==
    [o \in ReadOutcomes, text \in StatusOutputs |-> get_git_changed_files(o, text)]

\* changed_result = get_git_changed_files(folder_path), and the filter it feeds
ChangedOnlyFiles ==
    /\ pc = "changed_files"
    /\ \E o \in ReadOutcomes, text \in StatusOutputs :
          LET r == changed_files_results[o, text]
          IN  /\ git_queries' = Append(git_queries, r @@ [stdout |-> IF o = "ok" THEN text ELSE <<>>])
              /\ changed_result' = IF r.escaped # "none" THEN changed_result
                                   ELSE Some(r.value)
              /\ pc' = IF r.escaped # "none" THEN "crash" ELSE "list"
    /\ UNCHANGED <<lvars, cvars, avars, branch_diff_result, diff_result,
                   logs_with_diffs_result, git_file>>

\* if args.uncommitted or args.commits or args.pr: is_git_repository(folder_path)
GitRepository ==
    /\ pc = "git"
    /\ \E o \in Outcomes :
          LET r == is_git_repository(o)
          IN  /\ git_queries' = Append(git_queries, r)
              /\ pc' = IF r.escaped # "none" THEN "crash"
                       ELSE IF r.value.is_repo THEN AfterRepository
                       ELSE "pack"
    /\ UNCHANGED <<lvars, cvars, avars, changed_result, branch_diff_result, diff_result,
                   logs_with_diffs_result, git_file>>

\* if args.pr: branch_diff_result = get_branch_diff(folder_path, args.pr)
GitBranchDiff ==
    /\ pc = "git_pr"
    /\ \E o \in [1..3 -> PlainOutcomes], last \in ReadOutcomes :
          LET r == get_branch_diff(pr[1], o \o <<last>>)
          IN  /\ git_queries' = Append(git_queries, r)
              /\ branch_diff_result' = IF r.escaped # "none" THEN branch_diff_result
                                       ELSE Some(r.value)
              /\ pc' = IF r.escaped # "none" THEN "crash" ELSE AfterBranchDiff
    /\ UNCHANGED <<lvars, cvars, avars, changed_result, diff_result,
                   logs_with_diffs_result, git_file>>

\* if args.uncommitted: diff_result = get_git_diff(folder_path)
GitDiff ==
    /\ pc = "git_diff"
    /\ \E o \in [1..4 -> PlainOutcomes] :
          LET r == get_git_diff(o)
          IN  /\ git_queries' = Append(git_queries, r)
              /\ diff_result' = IF r.escaped # "none" THEN diff_result ELSE Some(r.value)
              /\ pc' = IF r.escaped # "none" THEN "crash" ELSE AfterDiff
    /\ UNCHANGED <<lvars, cvars, avars, changed_result, branch_diff_result,
                   logs_with_diffs_result, git_file>>

\* if args.commits: logs_with_diffs_result = get_git_logs_with_diffs(folder_path, args.commits)
GitCommits ==
    /\ pc = "git_commits"
    /\ \E o \in ReadOutcomes, n \in 1..commits[1], shows \in [1..commits[1] -> PlainOutcomes] :
          LET r == get_git_logs_with_diffs(o, n, shows)
          IN  /\ git_queries' = Append(git_queries, r)
              /\ logs_with_diffs_result' = IF r.escaped # "none" THEN logs_with_diffs_result
                                           ELSE Some(r.value)
              /\ pc' = IF r.escaped # "none" THEN "crash" ELSE "pack"
    /\ UNCHANGED <<lvars, cvars, avars, changed_result, branch_diff_result, diff_result,
                   git_file>>

\* if has_valid_git_data: write_git_file(git_output_file, ...)
WriteGitFile ==
    /\ pc = "write_git"
    /\ git_file' = Some(write_git_file(diff_result, logs_with_diffs_result,
                                       branch_diff_result))
    /\ pc' = "write"
    /\ UNCHANGED <<lvars, cvars, avars, changed_result, branch_diff_result, diff_result,
                   logs_with_diffs_result, git_queries>>

Next ==
    \/ Validate
    \/ ListFiles
    \/ PackOversized
    \/ PackAppend
    \/ AddLastChunk
    \/ WriteSingle
    \/ WriteMulti
    \/ WriteDone

Spec == Init /\ [][Next]_vars

\* main() called on a directory with --changed-only, or with one or more of
\* --uncommitted, --commits and --pr
InitGit ==
    /\ pc = "validate"
    /\ max_tokens = 2500
    /\ start_num = 1
    /\ include_tree = FALSE
    /\ folder = "dir"
    /\ access = [i \in 1..MaxFiles |-> "ok"]
    /\ folder_path = DefaultFolderPathLen
    /\ root_tag = DefaultRootTagLen
    /\ files = <<>>
    /\ paths = <<>>
    /\ image_count = 0
    /\ tree_section = None
    /\ images_section = None
    /\ idx = 0
    /\ chunks = <<>>
    /\ current_chunk = <<>>
    /\ current_tokens = 0
    /\ counter = 0
    /\ chunk_file_count = 0
    /\ large_standalone_files = <<>>
    /\ written = <<>>
    /\ cpc = "idle"
    /\ language = ""
    /\ content = <<>>
    /\ loc = [f |-> "none"]
    /\ result = <<>>
    /\ changed_only \in BOOLEAN
    /\ uncommitted \in BOOLEAN
    /\ commits \in {None, Some(0), Some(MaxCommits)}
    /\ pr \in {None, Some("main")}
    /\ changed_only # GitRequested
    /\ changed_result = None
    /\ branch_diff_result = None
    /\ diff_result = None
    /\ logs_with_diffs_result = None
    /\ git_queries = <<>>
    /\ git_file = None

NextGit ==
    \/ Validate
    \/ ChangedOnlyRepository
    \/ ChangedOnlyFiles
    \/ ListFiles
    \/ GitRepository
    \/ GitBranchDiff
    \/ GitDiff
    \/ GitCommits
    \/ PackOversized
    \/ PackAppend
    \/ AddLastChunk
    \/ WriteGitFile
    \/ WriteSingle
    \/ WriteMulti
    \/ WriteDone

SpecGit == InitGit /\ [][NextGit]_vars

\* main() is one thread: a run that has a next step takes it
SpecGitFair == SpecGit /\ WF_vars(NextGit)

----------------------------------------------------------------------------
(* main() with folder paths and root tags of several lengths *)

InitFile ==
    /\ pc = "validate"
    /\ max_tokens \in {1000, 2500}
    /\ start_num \in StartNums
    /\ include_tree \in BOOLEAN
    /\ folder = "dir"
    /\ access = [i \in 1..MaxFiles |-> "ok"]
    /\ folder_path \in FolderPathLens
    /\ root_tag \in RootTagLens
    /\ files = <<>>
    /\ paths = <<>>
    /\ image_count = 0
    /\ tree_section = None
    /\ images_section = None
    /\ idx = 0
    /\ chunks = <<>>
    /\ current_chunk = <<>>
    /\ current_tokens = 0
    /\ counter = 0
    /\ chunk_file_count = 0
    /\ large_standalone_files = <<>>
    /\ written = <<>>
    /\ cpc = "idle"
    /\ language = ""
    /\ content = <<>>
    /\ loc = [f |-> "none"]
    /\ result = <<>>
    /\ changed_only = FALSE
    /\ uncommitted = FALSE
    /\ commits = None
    /\ pr = None
    /\ changed_result = None
    /\ branch_diff_result = None
    /\ diff_result = None
    /\ logs_with_diffs_result = None
    /\ git_queries = <<>>
    /\ git_file = None

SpecFile == InitFile /\ [][Next]_vars

----------------------------------------------------------------------------
(* main() on a folder with files that cannot be read *)

InitRead ==
    /\ pc = "validate"
    /\ max_tokens \in {1000, 2500}
    /\ start_num \in StartNums
    /\ include_tree = FALSE
    /\ folder = "dir"
    /\ \E a \in [1..MaxReadFiles -> AccessKinds] :
          /\ \E i \in 1..MaxReadFiles : a[i] # "ok"
          /\ access = [i \in 1..MaxFiles |-> IF i <= MaxReadFiles THEN a[i] ELSE "ok"]
    /\ folder_path = DefaultFolderPathLen
    /\ root_tag = DefaultRootTagLen
    /\ files = <<>>
    /\ paths = <<>>
    /\ image_count = 0
    /\ tree_section = None
    /\ images_section = None
    /\ idx = 0
    /\ chunks = <<>>
    /\ current_chunk = <<>>
    /\ current_tokens = 0
    /\ counter = 0
    /\ chunk_file_count = 0
    /\ large_standalone_files = <<>>
    /\ written = <<>>
    /\ cpc = "idle"
    /\ language = ""
    /\ content = <<>>
    /\ loc = [f |-> "none"]
    /\ result = <<>>
    /\ changed_only = FALSE
    /\ uncommitted = FALSE
    /\ commits = None
    /\ pr = None
    /\ changed_result = None
    /\ branch_diff_result = None
    /\ diff_result = None
    /\ logs_with_diffs_result = None
    /\ git_queries = <<>>
    /\ git_file = None

NextRead ==
    \/ Validate
    \/ ListFiles
    \/ PackOversized
    \/ PackAppend
    \/ PackRaises
    \/ AddLastChunk
    \/ WriteSingle
    \/ WriteMulti
    \/ WriteDone

SpecRead == InitRead /\ [][NextRead]_vars

----------------------------------------------------------------------------
(* Texts *)

NL == "\n"

IND == " "

\* tokens written without a space before them
GluedLeft == {")", ";", ",", ".launch", ".collect", ".invoke", ".value"}

\* tokens that are one or more word characters (\w+)
Words ==
    {"package", "import", "interface", "oneway", "parcelable", "void", "f", "g", "I", "x",
     "apply", "plugin", "id", "alias", "dependencies", "implementation", "api", "task",
     "def", "android", "debug", "release", "buildTypes", "tasks", "debugApi",
     "from", "class", "async", "return", "A", "B", "y", "if", "else", "pass",
     "export", "type", "abstract", "function", "const", "let", "var", "static",
     "T", "query", "Q", "field", "String", "int", "boolean",
     "public", "private", "protected", "readonly",
     "enum", "sealed", "data", "object", "companion", "fun", "override", "suspend", "val",
     "constructor", "init", "typealias", "viewModelScope", "when", "is", "internal",
     "E", "S", "D", "_s",
     "yyyyyyyyyyyyyyyyyyyyyyyyyyyyyyyyyyyyyyyyyyyyyyyyyy",
     "zzzzzzzzzzzzzzzzzzzzzzzzzzzzzzzzzzzzzzzzzzzzz",
     "xxxxxxxxxxxxxxxxxxxxxxxxxxxxxxxxxxxxxxxxxxxxxxxxxxxxxxxxxxxxxxxxxxxxxxxxx"}

\* a word of 73 characters
LongWord ==
    "xxxxxxxxxxxxxxxxxxxxxxxxxxxxxxxxxxxxxxxxxxxxxxxxxxxxxxxxxxxxxxxxxxxxxxxxx"

\* a word of 50 characters
Word50 == "yyyyyyyyyyyyyyyyyyyyyyyyyyyyyyyyyyyyyyyyyyyyyyyyyy"

\* a word of 45 characters
Word45 == "zzzzzzzzzzzzzzzzzzzzzzzzzzzzzzzzzzzzzzzzzzzzz"

IsWord(t) == t \in Words

\* dotted names ([\w.]+) that are not plain words
Dotted == {"a.b", "a.b.C", "a.b.D", "a.b.E", "a.b.F", "c.d.G", "h"}

\* tokens that begin with a word character (\w+ matches at their start)
WordStart(t) == t \in Words \cup Dotted

\* quoted string literals, by their quote character
SQuoted == {"'lib'"}

DQuoted == {"\"lib\""}

Contains(line, t) == \E n \in 1..Len(line) : line[n] = t

Count(line, t) == Cardinality({n \in 1..Len(line) : line[n] = t})

At(line, n) == IF n \in 1..Len(line) THEN line[n] ELSE ""

\* a separating space stands before the n-th token (\s+ matches there)
Spaced(line, n) == n \in 2..Len(line) /\ line[n] \notin GluedLeft

\* str.split('\n')
RECURSIVE SplitFrom(_, _, _)
SplitFrom(text, n, cur) ==
    IF n > Len(text) THEN <<cur>>
    ELSE IF text[n] = NL THEN <<cur>> \o SplitFrom(text, n + 1, <<>>)
    ELSE SplitFrom(text, n + 1, Append(cur, text[n]))

Split(text) == SplitFrom(text, 1, <<>>)

\* '\n'.join(parts)
RECURSIVE Join(_)
Join(parts) ==
    IF parts = <<>> THEN <<>>
    ELSE IF Len(parts) = 1 THEN parts[1]
    ELSE parts[1] \o <<NL>> \o Join(Tail(parts))

RECURSIVE LStrip(_)
LStrip(line) ==
    IF line # <<>> /\ Head(line) \in {IND, NL} THEN LStrip(Tail(line)) ELSE line

RECURSIVE RStrip(_)
RStrip(line) ==
    IF line # <<>> /\ line[Len(line)] \in {IND, NL}
    THEN RStrip(SubSeq(line, 1, Len(line) - 1)) ELSE line

\* str.strip()
Strip(line) == RStrip(LStrip(line))

\* len(line): the characters of the tokens and of the spaces between them
RECURSIVE CharLenFrom(_, _)
CharLenFrom(line, n) ==
    IF n > Len(line) THEN 0
    ELSE Len(line[n])
         + (IF n > 1 /\ line[n] \notin GluedLeft /\ line[n - 1] # IND THEN 1 ELSE 0)
         + CharLenFrom(line, n + 1)

CharLen(line) == CharLenFrom(line, 1)

\* line[:n] for an n that ends a token: the longest run of leading tokens that
\* takes at most n characters
RECURSIVE Cut(_, _)
Cut(line, n) ==
    IF CharLen(line) <= n THEN line ELSE Cut(SubSeq(line, 1, Len(line) - 1), n)

\* list[n] for a Python index n, counted from 0
Item(list, n) == list[n + 1]

\* line[:len(line) - len(stripped)]: the leading whitespace of a line
Indent(line) == SubSeq(line, 1, Len(line) - Len(LStrip(line)))

\* the texts of at most n lines drawn from a vocabulary of lines
TextsOf(vocabulary, n) == {Join(ls) : ls \in SeqsUpTo(vocabulary, n) \ {<<>>}}

----------------------------------------------------------------------------
(* compress_aidl *)

AidlMatches(stripped) ==
    \/ \* package: ^\s*package\s+[\w.]+;
       /\ At(stripped, 1) = "package" /\ Spaced(stripped, 2)
       /\ (IsWord(stripped[2]) \/ stripped[2] \in Dotted)
       /\ At(stripped, 3) = ";"
    \/ \* import: ^\s*import\s+[\w.]+;
       /\ At(stripped, 1) = "import" /\ Spaced(stripped, 2)
       /\ (IsWord(stripped[2]) \/ stripped[2] \in Dotted)
       /\ At(stripped, 3) = ";"
    \/ \* interface: ^\s*(?:oneway\s+)?interface\s+(\w+)
       \E o \in {0, 1} :
           /\ o = 1 => (At(stripped, 1) = "oneway" /\ Spaced(stripped, 2))
           /\ At(stripped, o + 1) = "interface"
           /\ Spaced(stripped, o + 2) /\ IsWord(stripped[o + 2])
    \/ \* parcelable: ^\s*parcelable\s+(\w+)
       /\ At(stripped, 1) = "parcelable"
       /\ Spaced(stripped, 2) /\ IsWord(stripped[2])
    \/ \* method: ^\s*(?:oneway\s+)?(?:\w+(?:<[^>]+>)?)\s+(\w+)\s*\(
       \E o \in {0, 1} :
           /\ o = 1 => (At(stripped, 1) = "oneway" /\ Spaced(stripped, 2))
           /\ IsWord(At(stripped, o + 1))
           /\ Spaced(stripped, o + 2) /\ IsWord(stripped[o + 2])
           /\ At(stripped, o + 3) = "("

AidlSkipped(stripped) ==
    At(stripped, 1) = "//" \/ At(stripped, 1) = "/*" \/ stripped = <<>>

AidlStart(text) ==
    [f |-> "compress_aidl", lines |-> Split(text), i |-> 0, extracted |-> <<>>,
     ret |-> <<>>]

\* one iteration of "for line in lines"
AidlLine ==
    /\ cpc = "compress_aidl"
    /\ loc.i < Len(loc.lines)
    /\ LET line == loc.lines[loc.i + 1]
           stripped == Strip(line)
       IN  loc' = [loc EXCEPT
                     !.i = @ + 1,
                     !.extracted = IF ~AidlSkipped(stripped) /\ AidlMatches(stripped)
                                   THEN Append(@, line) ELSE @]
    /\ UNCHANGED <<cpc, language, content, result>>
    /\ UNCHANGED <<pvars, gvars>>

\* return '\n'.join(extracted)
AidlReturn ==
    /\ cpc = "compress_aidl"
    /\ loc.i = Len(loc.lines)
    /\ loc' = [loc EXCEPT !.ret = Join(loc.extracted)]
    /\ cpc' = "return"
    /\ UNCHANGED <<language, content, result>>
    /\ UNCHANGED <<pvars, gvars>>

AidlVocabulary ==
    {<<>>, <<"//", "x">>, <<"/*", "x", "*/">>, <<"package", "a.b", ";">>,
     <<"import", "a.b.C", ";">>, <<"oneway", "interface", "I", "{">>,
     <<IND, "void", "f", "(", ")", ";">>, <<"}">>}

----------------------------------------------------------------------------
(* compress_groovy *)

DependencyVerbs ==
    {"implementation", "api", "compileOnly", "runtimeOnly", "testImplementation",
     "androidTestImplementation", "kapt", "ksp", "annotationProcessor"}

\* ^\s*(?:id|alias)\s*[\'"\(]
GroovyPlugins(stripped) ==
    /\ At(stripped, 1) \in {"id", "alias"}
    /\ At(stripped, 2) \in SQuoted \cup DQuoted \cup {"("}

\* ^\s*apply\s+
GroovyApply(stripped) == At(stripped, 1) = "apply" /\ Spaced(stripped, 2)

\* ^\s*dependencies\s*\{
GroovyDependenciesStart(stripped) ==
    At(stripped, 1) = "dependencies" /\ At(stripped, 2) = "{"

\* ^\s*(?:implementation|api|...)\s*[\(\']
GroovyDependency(stripped) ==
    /\ At(stripped, 1) \in DependencyVerbs
    /\ At(stripped, 2) \in SQuoted \cup {"("}

\* ^\s*(?:task|tasks\.register)\s*[\(\']?(\w+): the keyword, then a word, which
\* may follow at once ("tasks", "tasks.register"), after a space, or after ( or '
GroovyTask(stripped) ==
    \/ At(stripped, 1) \in {"tasks", "tasks.register"}
    \/ /\ At(stripped, 1) = "task"
       /\ \/ IsWord(At(stripped, 2))
          \/ At(stripped, 2) \in SQuoted
          \/ At(stripped, 2) = "(" /\ IsWord(At(stripped, 3))

\* ^\s*(?:def|void|String|int|boolean)\s+(\w+)\s*\(
GroovyFunction(stripped) ==
    /\ At(stripped, 1) \in {"def", "void", "String", "int", "boolean"}
    /\ Spaced(stripped, 2) /\ IsWord(stripped[2])
    /\ At(stripped, 3) = "("

\* ^\s*android\s*\{
GroovyAndroidBlock(stripped) == At(stripped, 1) = "android" /\ At(stripped, 2) = "{"

\* ^\s*(?:debug|release|buildTypes)\s*\{?: any line that begins with one of the
\* three words, also as the beginning of a longer word
GroovyBuildTypes(stripped) ==
    At(stripped, 1) \in {"debug", "release", "buildTypes", "debugApi"}

GroovyStart(text) ==
    [f |-> "compress_groovy", lines |-> Split(text), i |-> 0, extracted |-> <<>>,
     in_dependencies |-> FALSE, brace_depth |-> 0, ret |-> <<>>]

\* one iteration of "for line in lines"
GroovyLine ==
    /\ cpc = "compress_groovy"
    /\ loc.i < Len(loc.lines)
    /\ LET line == loc.lines[loc.i + 1]
           stripped == Strip(line)
           depth == loc.brace_depth + Count(stripped, "{") - Count(stripped, "}")
       IN  IF At(stripped, 1) = "//" \/ stripped = <<>>
           THEN loc' = [loc EXCEPT !.i = @ + 1]
           ELSE IF GroovyDependenciesStart(stripped)
           THEN loc' = [loc EXCEPT !.i = @ + 1, !.brace_depth = depth,
                                   !.in_dependencies = TRUE,
                                   !.extracted = Append(@, line)]
           ELSE IF loc.in_dependencies
           THEN IF depth = 0
                THEN loc' = [loc EXCEPT !.i = @ + 1, !.brace_depth = depth,
                                        !.in_dependencies = FALSE,
                                        !.extracted = Append(@, <<"}">>)]
                ELSE IF GroovyDependency(stripped)
                THEN loc' = [loc EXCEPT !.i = @ + 1, !.brace_depth = depth,
                                        !.extracted = Append(@, line)]
                ELSE loc' = [loc EXCEPT !.i = @ + 1, !.brace_depth = depth]
           ELSE IF \/ GroovyPlugins(stripped) \/ GroovyApply(stripped)
                   \/ GroovyTask(stripped) \/ GroovyFunction(stripped)
                   \/ GroovyAndroidBlock(stripped) \/ GroovyBuildTypes(stripped)
           THEN loc' = [loc EXCEPT !.i = @ + 1, !.brace_depth = depth,
                                   !.extracted = Append(@, line)]
           ELSE loc' = [loc EXCEPT !.i = @ + 1, !.brace_depth = depth]
    /\ UNCHANGED <<cpc, language, content, result>>
    /\ UNCHANGED <<pvars, gvars>>

\* return '\n'.join(extracted)
GroovyReturn ==
    /\ cpc = "compress_groovy"
    /\ loc.i = Len(loc.lines)
    /\ loc' = [loc EXCEPT !.ret = Join(loc.extracted)]
    /\ cpc' = "return"
    /\ UNCHANGED <<language, content, result>>
    /\ UNCHANGED <<pvars, gvars>>

GroovyVocabulary ==
    {<<>>, <<"//", "x">>, <<"apply", "plugin">>, <<IND, "id", "'lib'">>,
     <<"dependencies", "{">>, <<IND, "implementation", "'lib'">>,
     <<IND, "debugApi", "\"lib\"">>, <<"android", "{">>, <<"}">>,
     <<"task", "f", "{">>, <<"def", "g", "(", ")", "{">>, <<"x">>}

----------------------------------------------------------------------------
(* compress_python *)

\* decorators and annotations: @ and a word
AtWords == {"@A", "@B"}

\* ^\s*(?:import|from)\s+
PyImport(stripped) == At(stripped, 1) \in {"import", "from"} /\ Spaced(stripped, 2)

\* ^\s*class\s+(\w+)
PyClass(stripped) ==
    At(stripped, 1) = "class" /\ Spaced(stripped, 2) /\ IsWord(stripped[2])

\* ^\s*(?:async\s+)?def\s+(\w+)\s*\(
PyFunction(stripped) ==
    \E o \in {0, 1} :
        /\ o = 1 => (At(stripped, 1) = "async" /\ Spaced(stripped, 2))
        /\ At(stripped, o + 1) = "def"
        /\ Spaced(stripped, o + 2) /\ IsWord(stripped[o + 2])
        /\ At(stripped, o + 3) = "("

\* ^\s*return\s+
PyReturn(stripped) == At(stripped, 1) = "return" /\ Spaced(stripped, 2)

\* ^\s*@\w+
PyDecorator(stripped) == At(stripped, 1) \in AtWords

PythonStart(text) ==
    [f |-> "compress_python", lines |-> Split(text), i |-> 0, extracted |-> <<>>,
     imports |-> <<>>, pending_decorators |-> <<>>, j |-> 0, full_sig |-> <<>>,
     ret |-> <<>>]

\* which branch of the loop body the line at i takes
PyBranchOf(stripped) ==
    IF At(stripped, 1) = "#" \/ stripped = <<>> THEN "skip"
    ELSE IF PyImport(stripped) THEN "import"
    ELSE IF PyDecorator(stripped) THEN "decorator"
    ELSE IF PyClass(stripped) THEN "class"
    ELSE IF PyFunction(stripped) THEN "function"
    ELSE IF PyReturn(stripped) THEN "return"
    ELSE "other"

PyBranch == PyBranchOf(Strip(Item(loc.lines, loc.i)))

\* if '(' in stripped and ')' not in stripped
OpenParen(stripped) == Contains(stripped, "(") /\ ~Contains(stripped, ")")

PythonLine_KeepsQueue ==
    /\ cpc = "compress_python"
    /\ loc.i < Len(loc.lines)
    /\ LET line == Item(loc.lines, loc.i)
           stripped == Strip(line)
           branch == PyBranch
       IN  /\ ~(branch = "function" /\ OpenParen(stripped))
           /\ loc' = CASE branch = "skip" -> [loc EXCEPT !.i = @ + 1]
                       [] branch = "import" ->
                            [loc EXCEPT !.i = @ + 1, !.imports = Append(@, stripped)]
                       [] branch = "decorator" ->
                            [loc EXCEPT !.i = @ + 1,
                                        !.pending_decorators = Append(@, line)]
                       [] branch \in {"class", "function"} ->
                            [loc EXCEPT !.i = @ + 1,
                                        !.extracted = Append(@ \o loc.pending_decorators, line),
                                        !.pending_decorators = <<>>]
                       [] branch = "return" ->
                            [loc EXCEPT !.i = @ + 1,
                                        !.pending_decorators = <<>>,
                                        !.extracted =
                                            IF CharLen(stripped) > 80
                                            THEN Append(@, Indent(line) \o <<"return", "...">>)
                                            ELSE Append(@, line)]
                       [] branch = "other" ->
                            [loc EXCEPT !.i = @ + 1]
    /\ UNCHANGED <<cpc, language, content, result>>
    /\ UNCHANGED <<pvars, gvars>>

\* one iteration of "for i, line in enumerate(lines)", but for a function whose
\* signature runs over several lines
PythonLine ==
    /\ cpc = "compress_python"
    /\ loc.i < Len(loc.lines)
    /\ LET line == Item(loc.lines, loc.i)
           stripped == Strip(line)
           branch == PyBranch
       IN  /\ ~(branch = "function" /\ OpenParen(stripped))
           /\ loc' = CASE branch = "skip" -> [loc EXCEPT !.i = @ + 1]
                       [] branch = "import" ->
                            [loc EXCEPT !.i = @ + 1, !.imports = Append(@, stripped)]
                       [] branch = "decorator" ->
                            [loc EXCEPT !.i = @ + 1,
                                        !.pending_decorators = Append(@, line)]
                       [] branch \in {"class", "function"} ->
                            [loc EXCEPT !.i = @ + 1,
                                        !.extracted = Append(@ \o loc.pending_decorators, line),
                                        !.pending_decorators = <<>>]
                       [] branch = "return" ->
                            [loc EXCEPT !.i = @ + 1,
                                        !.pending_decorators = <<>>,
                                        !.extracted =
                                            IF CharLen(stripped) > 80
                                            THEN Append(@, Indent(line) \o <<"return", "...">>)
                                            ELSE Append(@, line)]
                       [] branch = "other" ->
                            [loc EXCEPT !.i = @ + 1, !.pending_decorators = <<>>]
    /\ UNCHANGED <<cpc, language, content, result>>
    /\ UNCHANGED <<pvars, gvars>>

\* a function whose signature does not close on its line: flush the decorators,
\* full_sig = line, j = i + 1
PythonSignature ==
    /\ cpc = "compress_python"
    /\ loc.i < Len(loc.lines)
    /\ PyBranch = "function"
    /\ OpenParen(Strip(Item(loc.lines, loc.i)))
    /\ loc' = [loc EXCEPT !.extracted = @ \o loc.pending_decorators,
                          !.pending_decorators = <<>>,
                          !.full_sig = Item(loc.lines, loc.i),
                          !.j = loc.i + 1]
    /\ cpc' = "compress_python:signature"
    /\ UNCHANGED <<language, content, result>>
    /\ UNCHANGED <<pvars, gvars>>

\* one iteration of "while j < len(lines) and ')' not in lines[j]"
PythonSignatureLoop ==
    /\ cpc = "compress_python:signature"
    /\ loc.j < Len(loc.lines) /\ ~Contains(Item(loc.lines, loc.j), ")")
    /\ loc' = [loc EXCEPT !.full_sig = @ \o <<NL>> \o Item(loc.lines, loc.j),
                          !.j = @ + 1]
    /\ UNCHANGED <<cpc, language, content, result>>
    /\ UNCHANGED <<pvars, gvars>>

\* the loop is left: if j < len(lines) the closing line is added; the signature
\* is appended, and the for loop goes on with the line after the header
PythonSignatureEnd ==
    /\ cpc = "compress_python:signature"
    /\ ~(loc.j < Len(loc.lines) /\ ~Contains(Item(loc.lines, loc.j), ")"))
    /\ LET full_sig == IF loc.j < Len(loc.lines)
                       THEN loc.full_sig \o <<NL>> \o Item(loc.lines, loc.j)
                       ELSE loc.full_sig
       IN  loc' = [loc EXCEPT !.full_sig = full_sig,
                              !.extracted = Append(@, full_sig),
                              !.i = @ + 1]
    /\ cpc' = "compress_python"
    /\ UNCHANGED <<language, content, result>>
    /\ UNCHANGED <<pvars, gvars>>

\* the condensed imports: at most 15, then "...and N more imports"
PyImportBlock(imports) ==
    IF imports = <<>> THEN <<>>
    ELSE <<<<"#imports:">>>>
         \o [n \in 1..(IF Len(imports) > 15 THEN 15 ELSE Len(imports)) |->
                <<"#">> \o imports[n]]
         \o (IF Len(imports) > 15
             THEN <<<<"#", "...and", ToString(Len(imports) - 15), "more", "imports">>>>
             ELSE <<>>)
         \o <<<<>>>>

\* return '\n'.join(result)
PythonReturn ==
    /\ cpc = "compress_python"
    /\ loc.i = Len(loc.lines)
    /\ loc' = [loc EXCEPT !.ret = Join(PyImportBlock(loc.imports) \o loc.extracted)]
    /\ cpc' = "return"
    /\ UNCHANGED <<language, content, result>>
    /\ UNCHANGED <<pvars, gvars>>

PythonVocabulary ==
    {<<>>, <<"#", "x">>, <<"import", "a.b">>, <<"@A">>, <<IND, "@B">>,
     <<"class", "A", ":">>,
     <<IND, "def", "f", "(", "x", ")", ":">>, <<IND, "async", "def", "g", "(">>,
     <<IND, "x", ")", ":">>, <<IND, "return", "x">>,
     <<IND, "return", LongWord, "x">>,
     <<IND, "pass">>}

\* longer texts: decorators with other lines between them and a header,
\* parameter lists with nested parentheses, and headers that are never closed
PythonScenarios ==
    {<<<<"@A">>, <<"#", "x">>, <<IND, "@B">>, <<"class", "A", ":">>>>,
     <<<<"@A">>, <<"import", "a.b">>, <<>>, <<IND, "def", "f", "(", "x", ")", ":">>>>,
     <<<<"@A">>, <<IND, "pass">>, <<IND, "@B">>, <<IND, "async", "def", "g", "(">>,
       <<IND, "x", ")", ":">>>>,
     <<<<IND, "async", "def", "g", "(">>, <<IND, "x", "=", "(", "x", ",">>,
       <<IND, "x", ")", ",">>, <<IND, "x", ")", ":">>, <<IND, "pass">>>>,
     <<<<IND, "def", "f", "(", "x", "=", "(", "x", ")", ",">>, <<IND, "x", ")", ":">>,
       <<IND, "pass">>>>,
     [n \in 1..4 |-> <<IND, "async", "def", "g", "(">>]}

\* the texts for compress_python
PythonTexts ==
    TextsOf(PythonVocabulary, MaxLines) \cup {Join(ls) : ls \in PythonScenarios}

----------------------------------------------------------------------------
(* compress_typescript *)

\* ^\s*import\s+
TsImport(stripped) == At(stripped, 1) = "import" /\ Spaced(stripped, 2)

\* an optional leading "export" and the space after it
TsExport(stripped, o) == o = 1 => (At(stripped, 1) = "export" /\ Spaced(stripped, 2))

\* ^\s*(?:export\s+)?interface\s+(\w+)
TsInterface(stripped) ==
    \E o \in {0, 1} :
        /\ TsExport(stripped, o)
        /\ At(stripped, o + 1) = "interface"
        /\ Spaced(stripped, o + 2) /\ IsWord(stripped[o + 2])

\* ^\s*(?:export\s+)?type\s+(\w+)
TsType(stripped) ==
    \E o \in {0, 1} :
        /\ TsExport(stripped, o)
        /\ At(stripped, o + 1) = "type"
        /\ Spaced(stripped, o + 2) /\ IsWord(stripped[o + 2])

\* ^\s*(?:export\s+)?(?:abstract\s+)?class\s+(\w+)
TsClass(stripped) ==
    \E o \in {0, 1}, a \in {0, 1} :
        /\ TsExport(stripped, o)
        /\ a = 1 => (At(stripped, o + 1) = "abstract" /\ Spaced(stripped, o + 2))
        /\ At(stripped, o + a + 1) = "class"
        /\ Spaced(stripped, o + a + 2) /\ IsWord(stripped[o + a + 2])

\* ^\s*(?:export\s+)?(?:async\s+)?function\s+(\w+)
TsFunction(stripped) ==
    \E o \in {0, 1}, a \in {0, 1} :
        /\ TsExport(stripped, o)
        /\ a = 1 => (At(stripped, o + 1) = "async" /\ Spaced(stripped, o + 2))
        /\ At(stripped, o + a + 1) = "function"
        /\ Spaced(stripped, o + a + 2) /\ IsWord(stripped[o + a + 2])

\* tokens that hold the character =
HasEquals(t) == t \in {"=", "=>", "=="}

\* the position of the first ")" after position n, or 0
FirstCloseAfter(line, n) ==
    IF \E q \in (n + 1)..Len(line) : line[q] = ")"
    THEN CHOOSE q \in (n + 1)..Len(line) :
             line[q] = ")" /\ \A r \in (n + 1)..(q - 1) : line[r] # ")"
    ELSE 0

\* ^\s*(?:export\s+)?(?:const|let|var)\s+(\w+)\s*=\s*(?:async\s+)?\([^)]*\)\s*(?::\s*[^=]+)?\s*=>
TsArrowFunc(stripped) ==
    \E o \in {0, 1}, a \in {0, 1} :
        /\ TsExport(stripped, o)
        /\ At(stripped, o + 1) \in {"const", "let", "var"}
        /\ Spaced(stripped, o + 2) /\ IsWord(stripped[o + 2])
        /\ At(stripped, o + 3) = "="
        /\ a = 1 => (At(stripped, o + 4) = "async" /\ Spaced(stripped, o + 5))
        /\ At(stripped, o + a + 4) = "("
        /\ LET q == FirstCloseAfter(stripped, o + a + 4)
           IN  /\ q # 0
               /\ \/ At(stripped, q + 1) = "=>"
                  \/ /\ At(stripped, q + 1) = ":"
                     /\ \E r \in (q + 2)..Len(stripped) :
                            /\ stripped[r] = "=>"
                            /\ \A t \in (q + 2)..(r - 1) : ~HasEquals(stripped[t])
                            /\ r = q + 2 => Spaced(stripped, r)

TsModifiers == {"public", "private", "protected", "static", "async", "readonly"}

\* ^\s*(?:public\s+|private\s+|protected\s+|static\s+|async\s+|readonly\s+)*(\w+)\s*\([^)]*\)\s*(?::\s*\S+)?\s*\{
TsMethod(stripped) ==
    \E k \in 0..Len(stripped) :
        /\ \A m \in 1..k : stripped[m] \in TsModifiers /\ Spaced(stripped, m + 1)
        /\ IsWord(At(stripped, k + 1))
        /\ At(stripped, k + 2) = "("
        /\ LET q == FirstCloseAfter(stripped, k + 2)
           IN  /\ q # 0
               /\ \/ At(stripped, q + 1) = "{"
                  \/ /\ At(stripped, q + 1) = ":"
                     /\ At(stripped, q + 2) # ""
                     /\ At(stripped, q + 3) = "{"

\* ^\s*return\s+
TsReturn(stripped) == At(stripped, 1) = "return" /\ Spaced(stripped, 2)

TypeScriptStart(text) ==
    [f |-> "compress_typescript", lines |-> Split(text), i |-> 0, extracted |-> <<>>,
     imports |-> <<>>, in_multiline_comment |-> FALSE, ret |-> <<>>]

\* one iteration of "for i, line in enumerate(lines)"
TypeScriptLine ==
    /\ cpc = "compress_typescript"
    /\ loc.i < Len(loc.lines)
    /\ LET line == Item(loc.lines, loc.i)
           stripped == Strip(line)
       IN  loc' =
             IF Contains(stripped, "/*") /\ ~Contains(stripped, "*/")
             THEN [loc EXCEPT !.i = @ + 1, !.in_multiline_comment = TRUE]
             ELSE IF Contains(stripped, "*/")
             THEN [loc EXCEPT !.i = @ + 1, !.in_multiline_comment = FALSE]
             ELSE IF loc.in_multiline_comment
             THEN [loc EXCEPT !.i = @ + 1]
             ELSE IF At(stripped, 1) = "//" \/ stripped = <<>>
             THEN [loc EXCEPT !.i = @ + 1]
             ELSE IF TsImport(stripped)
             THEN [loc EXCEPT !.i = @ + 1, !.imports = Append(@, stripped)]
             ELSE IF \/ TsInterface(stripped) \/ TsType(stripped) \/ TsClass(stripped)
                     \/ TsFunction(stripped) \/ TsArrowFunc(stripped)
                     \/ TsMethod(stripped)
             THEN [loc EXCEPT !.i = @ + 1, !.extracted = Append(@, line)]
             ELSE IF TsReturn(stripped)
             THEN [loc EXCEPT !.i = @ + 1,
                              !.extracted =
                                  IF CharLen(stripped) > 80
                                  THEN Append(@, Indent(line) \o <<"return", "...">>)
                                  ELSE Append(@, line)]
             ELSE [loc EXCEPT !.i = @ + 1]
    /\ UNCHANGED <<cpc, language, content, result>>
    /\ UNCHANGED <<pvars, gvars>>

\* the condensed imports: at most 10, each cut at 80 characters
TsImportBlock(imports) ==
    IF imports = <<>> THEN <<>>
    ELSE <<<<"//imports:">>>>
         \o [n \in 1..(IF Len(imports) > 10 THEN 10 ELSE Len(imports)) |->
                IF CharLen(imports[n]) > 80
                THEN <<"//">> \o Cut(imports[n], 80) \o <<"...">>
                ELSE <<"//">> \o imports[n]]
         \o (IF Len(imports) > 10
             THEN <<<<"//", "...and", ToString(Len(imports) - 10), "more", "imports">>>>
             ELSE <<>>)
         \o <<<<>>>>

\* return '\n'.join(result)
TypeScriptReturn ==
    /\ cpc = "compress_typescript"
    /\ loc.i = Len(loc.lines)
    /\ loc' = [loc EXCEPT !.ret = Join(TsImportBlock(loc.imports) \o loc.extracted)]
    /\ cpc' = "return"
    /\ UNCHANGED <<language, content, result>>
    /\ UNCHANGED <<pvars, gvars>>

TypeScriptVocabulary ==
    {<<>>, <<"//", "x">>, <<"/*", "x">>, <<"x", "*/">>, <<"import", "x">>,
     <<"import", LongWord, "from", "x">>, <<"export", "interface", "I", "{">>,
     <<"export", "abstract", "class", "A", "{">>, <<"async", "function", "f", "(", ")", "{">>,
     <<"const", "g", "=", "async", "(", "x", ")", ":", "T", "=>", "{">>,
     <<IND, "static", "f", "(", "x", ")", ":", "T", "{">>,
     <<IND, "if", "(", "x", ")", "{">>,
     <<IND, "return", "x">>, <<IND, "return", LongWord, "x">>, <<"}">>}

----------------------------------------------------------------------------
(* compress_graphql *)

TripleQuote == "\"\"\""

Quote == "\""

\* the number of " characters in a token
QuotesIn(t) ==
    CASE t = Quote -> 1
      [] t = TripleQuote -> 3
      [] t \in DQuoted -> 2
      [] OTHER -> 0

RECURSIVE QuoteCount(_)
QuoteCount(line) ==
    IF line = <<>> THEN 0 ELSE QuotesIn(Head(line)) + QuoteCount(Tail(line))

\* stripped[:stripped.find('#')]
BeforeHash(stripped) ==
    LET hash_pos == CHOOSE q \in 1..Len(stripped) :
                        stripped[q] = "#" /\ \A r \in 1..(q - 1) : stripped[r] # "#"
    IN  SubSeq(stripped, 1, hash_pos - 1)

\* stripped after the inline-comment step
GqlWithoutComment(stripped) ==
    IF Contains(stripped, "#") /\ QuoteCount(BeforeHash(stripped)) % 2 = 0
    THEN RStrip(BeforeHash(stripped))
    ELSE stripped

GraphQLStart(text) ==
    [f |-> "compress_graphql", lines |-> Split(text), i |-> 0, result |-> <<>>,
     in_docstring |-> FALSE, prev_blank |-> FALSE, ret |-> <<>>]

\* a "continue" that leaves the cursor where it is
GqlSkip_Stuck(l) == l

\* a comment line that ends a run of blank lines
GqlSkip_EndsBlankRun(l) == [l EXCEPT !.i = @ + 1, !.prev_blank = FALSE]

\* i += 1; continue  (a comment line)
GqlSkip(l) == [l EXCEPT !.i = @ + 1]

\* i += 1
GqlAdvance(l) == [l EXCEPT !.i = @ + 1]

\* one iteration of "while i < len(lines)"
GraphQLLine ==
    /\ cpc = "compress_graphql"
    /\ loc.i < Len(loc.lines)
    /\ LET line == Item(loc.lines, loc.i)
           stripped == Strip(line)
           kept == GqlWithoutComment(stripped)
       IN  loc' =
             IF loc.in_docstring
             THEN GqlAdvance([loc EXCEPT !.in_docstring = ~Contains(stripped, TripleQuote)])
             ELSE IF At(stripped, 1) = TripleQuote
             THEN GqlAdvance([loc EXCEPT !.in_docstring = ~(Count(stripped, TripleQuote) >= 2)])
             ELSE IF At(stripped, 1) = "#"
             THEN GqlSkip(loc)
             ELSE IF kept = <<>>
             THEN IF stripped # <<>>
                  THEN GqlAdvance(loc)
                  ELSE IF ~loc.prev_blank /\ loc.result # <<>>
                  THEN GqlAdvance([loc EXCEPT !.result = Append(@, <<>>),
                                              !.prev_blank = TRUE])
                  ELSE GqlAdvance(loc)
             ELSE \* len(line) > 120: runs of blanks become one blank, which a
                  \* text of tokens already is
                  GqlAdvance([loc EXCEPT !.prev_blank = FALSE,
                                         !.result = Append(@, RStrip(line))])
    /\ UNCHANGED <<cpc, language, content, result>>
    /\ UNCHANGED <<pvars, gvars>>

\* while result and not result[-1]: result.pop()
RECURSIVE PopTrailingBlank(_)
PopTrailingBlank(lines) ==
    IF lines # <<>> /\ lines[Len(lines)] = <<>>
    THEN PopTrailingBlank(SubSeq(lines, 1, Len(lines) - 1)) ELSE lines

\* while result and not result[0]: result.pop(0)
RECURSIVE PopLeadingBlank(_)
PopLeadingBlank(lines) ==
    IF lines # <<>> /\ lines[1] = <<>> THEN PopLeadingBlank(Tail(lines)) ELSE lines

\* return '\n'.join(result)
GraphQLReturn ==
    /\ cpc = "compress_graphql"
    /\ loc.i = Len(loc.lines)
    /\ loc' = [loc EXCEPT !.ret = Join(PopLeadingBlank(PopTrailingBlank(loc.result)))]
    /\ cpc' = "return"
    /\ UNCHANGED <<language, content, result>>
    /\ UNCHANGED <<pvars, gvars>>

GraphQLVocabulary ==
    {<<>>, <<IND>>, <<"#", "x">>, <<TripleQuote, "x", TripleQuote>>, <<TripleQuote>>,
     <<"type", "Q", "{">>, <<IND, "field", ":", "T">>, <<"}", "#", "x">>,
     <<IND, "field", "(", "x", ":", Quote, "#", Quote, ")", ":", "T">>,
     <<IND, "field", ":", "T", IND>>}

\* longer texts: blank lines separated only by comment lines or docstrings
GraphQLScenarios ==
    {<<<<"type", "Q", "{">>, <<>>, <<"#", "x">>, <<IND>>,
       <<TripleQuote, "x", TripleQuote>>, <<>>, <<IND, "field", ":", "T">>, <<>>,
       <<"#", "x">>, <<>>>>,
     <<<<>>, <<"#", "x">>, <<>>, <<"type", "Q", "{">>, <<>>, <<TripleQuote>>, <<>>,
       <<"x">>, <<TripleQuote>>, <<IND>>, <<IND, "field", ":", "T">>>>}

\* the texts for compress_graphql: the short ones and every beginning of a
\* longer one
GraphQLTexts ==
    TextsOf(GraphQLVocabulary, MaxLines)
    \cup UNION {{Join(SubSeq(ls, 1, n)) : n \in 1..Len(ls)} : ls \in GraphQLScenarios}

----------------------------------------------------------------------------
(* compress_kotlin: the patterns *)

\* (?:m1\s+|m2\s+|...)* taking the first k tokens
KtModifiers(stripped, mods, k) ==
    \A m \in 1..k : stripped[m] \in mods /\ Spaced(stripped, m + 1)

KtVisibility == {"public", "private", "internal"}

\* ^\s*package\s+[\w.]+
KtPackage(stripped) ==
    At(stripped, 1) = "package" /\ Spaced(stripped, 2) /\ WordStart(stripped[2])

\* ^\s*import\s+
KtImport(stripped) == At(stripped, 1) = "import" /\ Spaced(stripped, 2)

\* ^\s*@\w+
KtAnnotation(stripped) == At(stripped, 1) \in AtWords

KtClassModifiers ==
    {"public", "private", "protected", "internal", "open", "abstract", "sealed", "data",
     "enum", "annotation", "value", "inner"}

\* ^\s*(?:public\s+|...|inner\s+)*(?:class|object)\s+(\w+)
KtClass(stripped) ==
    \E k \in 0..Len(stripped) :
        /\ KtModifiers(stripped, KtClassModifiers, k)
        /\ At(stripped, k + 1) \in {"class", "object"}
        /\ Spaced(stripped, k + 2) /\ WordStart(stripped[k + 2])

\* ^\s*(?:public\s+|private\s+|internal\s+)*enum\s+class\s+(\w+)
KtEnumClass(stripped) ==
    \E k \in 0..Len(stripped) :
        /\ KtModifiers(stripped, KtVisibility, k)
        /\ At(stripped, k + 1) = "enum" /\ Spaced(stripped, k + 2)
        /\ At(stripped, k + 2) = "class"
        /\ Spaced(stripped, k + 3) /\ WordStart(stripped[k + 3])

\* ^\s*(?:public\s+|private\s+|internal\s+)*sealed\s+(?:class|interface)\s+(\w+)
KtSealedClass(stripped) ==
    \E k \in 0..Len(stripped) :
        /\ KtModifiers(stripped, KtVisibility, k)
        /\ At(stripped, k + 1) = "sealed" /\ Spaced(stripped, k + 2)
        /\ At(stripped, k + 2) \in {"class", "interface"}
        /\ Spaced(stripped, k + 3) /\ WordStart(stripped[k + 3])

\* ^\s*(?:public\s+|private\s+|protected\s+|internal\s+|sealed\s+|fun\s+)*interface\s+(\w+)
KtInterface(stripped) ==
    \E k \in 0..Len(stripped) :
        /\ KtModifiers(stripped, {"public", "private", "protected", "internal", "sealed",
                                  "fun"}, k)
        /\ At(stripped, k + 1) = "interface"
        /\ Spaced(stripped, k + 2) /\ WordStart(stripped[k + 2])

KtFunctionModifiers ==
    {"public", "private", "protected", "internal", "open", "override", "suspend", "inline",
     "abstract", "final", "operator", "infix", "tailrec", "external", "actual", "expect"}

\* type parameter lists (<[^>]+>)
Generics == {"<T>"}

\* ^\s*(?:public\s+|...|expect\s+)*fun\s+(?:<[^>]+>\s*)?(\w+)\s*\(
KtFunction(stripped) ==
    \E k \in 0..Len(stripped), g \in {0, 1} :
        /\ KtModifiers(stripped, KtFunctionModifiers, k)
        /\ At(stripped, k + 1) = "fun" /\ Spaced(stripped, k + 2)
        /\ g = 1 => stripped[k + 2] \in Generics
        /\ IsWord(At(stripped, k + g + 2))
        /\ At(stripped, k + g + 3) = "("

KtPropertyModifiers ==
    {"public", "private", "protected", "internal", "open", "override", "abstract", "final",
     "const", "lateinit", "actual", "expect"}

\* ^\s*(?:public\s+|...|expect\s+)*(?:val|var)\s+(\w+)
KtProperty(stripped) ==
    \E k \in 0..Len(stripped) :
        /\ KtModifiers(stripped, KtPropertyModifiers, k)
        /\ At(stripped, k + 1) \in {"val", "var"}
        /\ Spaced(stripped, k + 2) /\ WordStart(stripped[k + 2])

\* ^\s*companion\s+object
KtCompanion(stripped) ==
    At(stripped, 1) = "companion" /\ Spaced(stripped, 2) /\ stripped[2] = "object"

\* ^\s*(?:public\s+|private\s+|protected\s+|internal\s+)*constructor\s*\(
KtConstructor(stripped) ==
    \E k \in 0..Len(stripped) :
        /\ KtModifiers(stripped, {"public", "private", "protected", "internal"}, k)
        /\ At(stripped, k + 1) = "constructor"
        /\ At(stripped, k + 2) = "("

\* ^\s*init\s*\{
KtInit(stripped) == At(stripped, 1) = "init" /\ At(stripped, 2) = "{"

\* ^\s*typealias\s+(\w+)
KtTypealias(stripped) ==
    At(stripped, 1) = "typealias" /\ Spaced(stripped, 2) /\ WordStart(stripped[2])

\* ^\s*(?:viewModelScope|lifecycleScope|CoroutineScope|GlobalScope)\s*\.\s*launch
KtScopeLaunch(stripped) ==
    /\ At(stripped, 1) \in {"viewModelScope", "lifecycleScope", "CoroutineScope",
                            "GlobalScope"}
    /\ At(stripped, 2) = ".launch"

\* ^\s*\w+.*\.collect\s*\{
KtFlowCollect(stripped) ==
    /\ WordStart(At(stripped, 1))
    /\ \E n \in 2..Len(stripped) : stripped[n] = ".collect" /\ At(stripped, n + 1) = "{"

\* ^\s*\w+.*\.invoke\s*\(
KtUseCaseInvoke(stripped) ==
    /\ WordStart(At(stripped, 1))
    /\ \E n \in 2..Len(stripped) : stripped[n] = ".invoke" /\ At(stripped, n + 1) = "("

\* ^\s*when\s*\(
KtWhenStatement(stripped) == At(stripped, 1) = "when" /\ At(stripped, 2) = "("

\* ^\s*is\s+\w+
KtWhenBranch(stripped) ==
    At(stripped, 1) = "is" /\ Spaced(stripped, 2) /\ WordStart(stripped[2])

\* ^\s*_\w+\s*[.=]
KtStateUpdate(stripped) ==
    /\ At(stripped, 1) \in {"_s"}
    /\ At(stripped, 2) \in {"=", "==", "=>", ".launch", ".collect", ".invoke", ".value"}

\* stripped.startswith('//')
StartsComment(stripped) == At(stripped, 1) = "//"

----------------------------------------------------------------------------
(* compress_kotlin: the main loop *)

last_lines_count == 3

max_body_lines_Fewer == last_lines_count + 2

max_body_lines == 8

KotlinStart(text) ==
    [f |-> "compress_kotlin", lines |-> Split(text), i |-> 0, extracted |-> <<>>,
     in_multiline_comment |-> FALSE, brace_depth |-> 0, in_init_block |-> FALSE,
     init_brace_depth |-> 0, init_content |-> <<>>, imports |-> <<>>,
     pending_annotations |-> <<>>, processed_lines |-> {}, j |-> 0, k |-> 0,
     enum_brace_depth |-> 0, sealed_brace_depth |-> 0, companion_brace_depth |-> 0,
     annotation_line |-> <<>>, full_sig |-> <<>>, func_lines |-> <<>>,
     has_body |-> FALSE, func_started |-> FALSE, func_brace_depth |-> 0,
     body_lines |-> <<>>, return_lines |-> <<>>, ret |-> <<>>]

\* stripped.count('{') - stripped.count('}')
Braces(stripped) == Count(stripped, "{") - Count(stripped, "}")

\* "continue" of the main loop: enumerate() hands out the next line
KtContinue(l) == [l EXCEPT !.i = @ + 1]

\* flush pending annotations.  An extracted entry of several lines is kept as
\* its lines: the entries are only ever joined with '\n'
KtFlush(l) ==
    [l EXCEPT !.extracted = @ \o l.pending_annotations, !.pending_annotations = <<>>]

\* what a line inside an init block adds to init_content; the indentation put
\* before it is one run of blanks whatever its width
KtInitKept(stripped) ==
    IF stripped = <<>> \/ StartsComment(stripped) THEN <<>>
    ELSE IF \/ KtScopeLaunch(stripped) \/ KtFlowCollect(stripped)
            \/ KtUseCaseInvoke(stripped) \/ KtWhenStatement(stripped)
            \/ KtWhenBranch(stripped)
    THEN <<<<IND>> \o stripped>>
    ELSE IF KtStateUpdate(stripped)
    THEN IF CharLen(stripped) > 60
         THEN <<<<IND>> \o Cut(stripped, 55) \o <<"...">>>>
         ELSE <<<<IND>> \o stripped>>
    ELSE <<>>

\* the "if in_init_block:" part of an iteration
KtInitLine(l, stripped) ==
    LET depth == l.init_brace_depth + Braces(stripped)
    IN  IF depth <= 0
        THEN [l EXCEPT !.init_brace_depth = depth,
                       !.in_init_block = FALSE,
                       !.extracted = @ \o <<<<IND, "init", "{">>>> \o l.init_content
                                       \o <<<<IND, "}">>>>,
                       !.init_content = <<>>]
        ELSE [l EXCEPT !.init_brace_depth = depth,
                       !.init_content = @ \o KtInitKept(stripped)]

\* the line kept for a property; the first = of a line is the token =
KtPropertyLine(line) ==
    IF CharLen(line) > 100 /\ Contains(line, "=")
    THEN LET p == CHOOSE q \in 1..Len(line) :
                      line[q] = "=" /\ \A r \in 1..(q - 1) : line[r] # "="
             rhs == Strip(SubSeq(line, p + 1, Len(line)))
         IN  IF CharLen(rhs) > 50
             THEN SubSeq(line, 1, p - 1) \o <<"=">> \o Cut(rhs, 45) \o <<"...">>
             ELSE line
    ELSE line

\* which branch of the loop body an iteration takes
KtBranch(l) ==
    LET stripped == Strip(Item(l.lines, l.i))
    IN  IF l.i \in l.processed_lines THEN "processed"
        ELSE IF Contains(stripped, "/*") /\ ~Contains(stripped, "*/") THEN "comment_open"
        ELSE IF Contains(stripped, "*/") THEN "comment_close"
        ELSE IF l.in_multiline_comment THEN "skip"
        ELSE IF ~l.in_init_block /\ (StartsComment(stripped) \/ stripped = <<>>) THEN "skip"
        ELSE IF l.in_init_block THEN "init_content"
        ELSE IF KtPackage(stripped) THEN "package"
        ELSE IF KtImport(stripped) THEN "import"
        ELSE IF KtAnnotation(stripped) THEN "annotation"
        ELSE IF KtEnumClass(stripped) THEN "enum_class"
        ELSE IF KtSealedClass(stripped) THEN "sealed_class"
        ELSE IF KtCompanion(stripped) THEN "companion"
        ELSE IF KtClass(stripped) THEN "class"
        ELSE IF KtInterface(stripped) THEN "interface"
        ELSE IF KtFunction(stripped) THEN "function"
        ELSE IF KtConstructor(stripped) THEN "constructor"
        ELSE IF KtInit(stripped) THEN "init"
        ELSE IF l.brace_depth + Braces(stripped) <= 2 /\ KtProperty(stripped) THEN "property"
        ELSE IF KtTypealias(stripped) THEN "typealias"
        ELSE "other"

\* the inner loop an iteration on branch b enters, if any
KtEnters(l, b) ==
    LET stripped == Strip(Item(l.lines, l.i))
    IN  CASE b = "annotation" /\ OpenParen(stripped) -> "compress_kotlin:annotation"
          [] b = "enum_class" -> "compress_kotlin:enum_open"
          [] b = "sealed_class" -> "compress_kotlin:sealed_open"
          [] b = "companion" -> "compress_kotlin:companion_open"
          [] b = "function" /\ OpenParen(stripped) -> "compress_kotlin:signature"
          [] b = "function" /\ ~OpenParen(stripped) -> "compress_kotlin:has_body"
          [] b = "constructor" /\ OpenParen(stripped) -> "compress_kotlin:constructor"
          [] OTHER -> "compress_kotlin"

\* the locals after the part of an iteration on branch b that precedes its
\* inner loops
KtLineLocals(l, b) ==
    LET line == Item(l.lines, l.i)
        stripped == Strip(line)
        d == [l EXCEPT !.brace_depth = @ + Braces(stripped)]
        flushed == KtFlush(d)
    IN  CASE b \in {"processed", "skip"} -> KtContinue(l)
          [] b = "comment_open" -> KtContinue([l EXCEPT !.in_multiline_comment = TRUE])
          [] b = "comment_close" -> KtContinue([l EXCEPT !.in_multiline_comment = FALSE])
          [] b = "init_content" -> KtContinue(KtInitLine(l, stripped))
          [] b = "package" -> KtContinue([d EXCEPT !.extracted = @ \o <<line, <<>>>>])
          [] b = "import" -> KtContinue([d EXCEPT !.imports = Append(@, stripped)])
          [] b = "annotation" ->
                IF OpenParen(stripped)
                THEN [d EXCEPT !.annotation_line = <<line>>, !.j = l.i + 1]
                ELSE KtContinue([d EXCEPT !.annotation_line = <<line>>,
                                          !.pending_annotations = Append(@, line)])
          [] b = "enum_class" ->
                [flushed EXCEPT !.extracted = Append(@, line),
                                !.processed_lines = @ \cup {l.i},
                                !.j = l.i + 1,
                                !.enum_brace_depth = Braces(stripped)]
          [] b = "sealed_class" ->
                [flushed EXCEPT !.extracted = Append(@, line),
                                !.processed_lines = @ \cup {l.i},
                                !.j = l.i + 1,
                                !.sealed_brace_depth = Braces(stripped)]
          [] b = "companion" ->
                [flushed EXCEPT !.extracted = Append(@, line),
                                !.processed_lines = @ \cup {l.i},
                                !.j = l.i + 1,
                                !.companion_brace_depth = Braces(stripped)]
          [] b \in {"class", "interface", "typealias"} ->
                KtContinue([(IF b = "typealias" THEN d ELSE flushed)
                               EXCEPT !.extracted = Append(@, line)])
          [] b = "function" ->
                [flushed EXCEPT !.func_lines = <<line>>,
                                !.processed_lines = @ \cup {l.i},
                                !.j = l.i + 1]
          [] b = "constructor" ->
                IF OpenParen(stripped)
                THEN [flushed EXCEPT !.full_sig = <<line>>, !.j = l.i + 1]
                ELSE KtContinue([flushed EXCEPT !.full_sig = <<line>>,
                                                !.extracted = Append(@, line)])
          [] b = "init" ->
                KtContinue([d EXCEPT !.in_init_block = TRUE,
                                     !.init_brace_depth = Braces(stripped),
                                     !.init_content = <<>>])
          [] b = "property" ->
                KtContinue([flushed EXCEPT !.extracted = Append(@, KtPropertyLine(line))])
          [] OTHER -> KtContinue(d)

\* one iteration of "for i, line in enumerate(lines)", up to its inner loops
KotlinLine ==
    /\ cpc = "compress_kotlin"
    /\ loc.i < Len(loc.lines)
    /\ \E b \in {KtBranch(loc)} :
          /\ loc' = KtLineLocals(loc, b)
          /\ cpc' = KtEnters(loc, b)
    /\ UNCHANGED <<language, content, result>>
    /\ UNCHANGED <<pvars, gvars>>

----------------------------------------------------------------------------
(* compress_kotlin: the inner loops *)

\* lines[j] of the running compressor
LineJ == Item(loc.lines, loc.j)

\* while j < len(lines) and ')' not in lines[j]  (multi-line annotation)
KotlinAnnotationLoop ==
    /\ cpc = "compress_kotlin:annotation"
    /\ loc.j < Len(loc.lines) /\ ~Contains(LineJ, ")")
    /\ loc' = [loc EXCEPT !.annotation_line = Append(@, LineJ),
                          !.processed_lines = @ \cup {loc.j},
                          !.j = @ + 1]
    /\ UNCHANGED <<cpc, language, content, result>>
    /\ UNCHANGED <<pvars, gvars>>

KotlinAnnotationEnd ==
    /\ cpc = "compress_kotlin:annotation"
    /\ ~(loc.j < Len(loc.lines) /\ ~Contains(LineJ, ")"))
    /\ LET closed == IF loc.j < Len(loc.lines)
                     THEN [loc EXCEPT !.annotation_line = Append(@, LineJ),
                                      !.processed_lines = @ \cup {loc.j}]
                     ELSE loc
       IN  loc' = KtContinue([closed EXCEPT
                                 !.pending_annotations = @ \o closed.annotation_line])
    /\ cpc' = "compress_kotlin"
    /\ UNCHANGED <<language, content, result>>
    /\ UNCHANGED <<pvars, gvars>>

\* while j < len(lines) and enum_brace_depth == 0
KotlinEnumOpen ==
    /\ cpc = "compress_kotlin:enum_open"
    /\ loc.j < Len(loc.lines) /\ loc.enum_brace_depth = 0
    /\ loc' = IF Contains(Strip(LineJ), "{")
              THEN [loc EXCEPT !.enum_brace_depth = 1,
                               !.extracted = Append(@, LineJ),
                               !.processed_lines = @ \cup {loc.j},
                               !.j = @ + 1]
              ELSE [loc EXCEPT !.j = @ + 1]
    /\ UNCHANGED <<cpc, language, content, result>>
    /\ UNCHANGED <<pvars, gvars>>

KotlinEnumOpenEnd ==
    /\ cpc = "compress_kotlin:enum_open"
    /\ ~(loc.j < Len(loc.lines) /\ loc.enum_brace_depth = 0)
    /\ cpc' = "compress_kotlin:enum_entries"
    /\ UNCHANGED <<loc, language, content, result>>
    /\ UNCHANGED <<pvars, gvars>>

\* one iteration of "while j < len(lines)" over the enum entries
KotlinEnumEntry ==
    /\ cpc = "compress_kotlin:enum_entries"
    /\ loc.j < Len(loc.lines)
    /\ LET enum_line == LineJ
           enum_stripped == Strip(enum_line)
           seen == [loc EXCEPT !.processed_lines = @ \cup {loc.j}]
           kept == IF enum_stripped # <<>> /\ ~StartsComment(enum_stripped)
                   THEN [seen EXCEPT !.extracted = Append(@, enum_line)]
                   ELSE seen
       IN  IF enum_stripped = <<";">>
           THEN /\ loc' = KtContinue([seen EXCEPT !.extracted = Append(@, enum_line)])
                /\ cpc' = "compress_kotlin"
           ELSE IF KtFunction(enum_stripped) \/ KtProperty(enum_stripped)
           THEN /\ loc' = KtContinue(seen)
                /\ cpc' = "compress_kotlin"
           ELSE IF enum_stripped = <<"}">>
           THEN /\ loc' = KtContinue(kept)
                /\ cpc' = "compress_kotlin"
           ELSE /\ loc' = [kept EXCEPT !.j = @ + 1]
                /\ cpc' = cpc
    /\ UNCHANGED <<language, content, result>>
    /\ UNCHANGED <<pvars, gvars>>

KotlinEnumEnd ==
    /\ cpc = "compress_kotlin:enum_entries"
    /\ ~(loc.j < Len(loc.lines))
    /\ loc' = KtContinue(loc)
    /\ cpc' = "compress_kotlin"
    /\ UNCHANGED <<language, content, result>>
    /\ UNCHANGED <<pvars, gvars>>

\* while j < len(lines) and sealed_brace_depth == 0
KotlinSealedOpen ==
    /\ cpc = "compress_kotlin:sealed_open"
    /\ loc.j < Len(loc.lines) /\ loc.sealed_brace_depth = 0
    /\ loc' = IF Contains(Strip(LineJ), "{")
              THEN [loc EXCEPT !.sealed_brace_depth = 1,
                               !.processed_lines = @ \cup {loc.j},
                               !.j = @ + 1]
              ELSE [loc EXCEPT !.j = @ + 1]
    /\ UNCHANGED <<cpc, language, content, result>>
    /\ UNCHANGED <<pvars, gvars>>

KotlinSealedOpenEnd ==
    /\ cpc = "compress_kotlin:sealed_open"
    /\ ~(loc.j < Len(loc.lines) /\ loc.sealed_brace_depth = 0)
    /\ cpc' = "compress_kotlin:sealed_body"
    /\ UNCHANGED <<loc, language, content, result>>
    /\ UNCHANGED <<pvars, gvars>>

\* while j < len(lines) and sealed_brace_depth > 0
KotlinSealedBody ==
    /\ cpc = "compress_kotlin:sealed_body"
    /\ loc.j < Len(loc.lines) /\ loc.sealed_brace_depth > 0
    /\ LET sealed_line == LineJ
           sealed_stripped == Strip(sealed_line)
           counted == [loc EXCEPT !.sealed_brace_depth = @ + Braces(sealed_stripped),
                                  !.j = @ + 1]
       IN  loc' = IF KtClass(sealed_stripped)
                  THEN [counted EXCEPT !.extracted = Append(@, sealed_line),
                                       !.processed_lines = @ \cup {loc.j}]
                  ELSE counted
    /\ UNCHANGED <<cpc, language, content, result>>
    /\ UNCHANGED <<pvars, gvars>>

KotlinSealedEnd ==
    /\ cpc = "compress_kotlin:sealed_body"
    /\ ~(loc.j < Len(loc.lines) /\ loc.sealed_brace_depth > 0)
    /\ loc' = KtContinue(loc)
    /\ cpc' = "compress_kotlin"
    /\ UNCHANGED <<language, content, result>>
    /\ UNCHANGED <<pvars, gvars>>

\* while j < len(lines) and companion_brace_depth == 0
KotlinCompanionOpen ==
    /\ cpc = "compress_kotlin:companion_open"
    /\ loc.j < Len(loc.lines) /\ loc.companion_brace_depth = 0
    /\ loc' = IF Contains(Strip(LineJ), "{")
              THEN [loc EXCEPT !.companion_brace_depth = 1,
                               !.processed_lines = @ \cup {loc.j},
                               !.j = @ + 1]
              ELSE [loc EXCEPT !.j = @ + 1]
    /\ UNCHANGED <<cpc, language, content, result>>
    /\ UNCHANGED <<pvars, gvars>>

KotlinCompanionOpenEnd ==
    /\ cpc = "compress_kotlin:companion_open"
    /\ ~(loc.j < Len(loc.lines) /\ loc.companion_brace_depth = 0)
    /\ cpc' = "compress_kotlin:companion_body"
    /\ UNCHANGED <<loc, language, content, result>>
    /\ UNCHANGED <<pvars, gvars>>

\* 'const val' in comp_stripped
HasConstVal(stripped) ==
    \E n \in 1..(Len(stripped) - 1) : stripped[n] = "const" /\ stripped[n + 1] = "val"

\* while j < len(lines) and companion_brace_depth > 0
KotlinCompanionBody ==
    /\ cpc = "compress_kotlin:companion_body"
    /\ loc.j < Len(loc.lines) /\ loc.companion_brace_depth > 0
    /\ LET comp_line == LineJ
           comp_stripped == Strip(comp_line)
           depth == loc.companion_brace_depth + Braces(comp_stripped)
           counted == [loc EXCEPT !.companion_brace_depth = depth,
                                  !.processed_lines = @ \cup {loc.j},
                                  !.j = @ + 1]
       IN  loc' = IF \/ HasConstVal(comp_stripped)
                     \/ KtFunction(comp_stripped)
                     \/ KtProperty(comp_stripped) /\ depth = 1
                     \/ comp_stripped = <<"}">> /\ depth = 0
                  THEN [counted EXCEPT !.extracted = Append(@, comp_line)]
                  ELSE counted
    /\ UNCHANGED <<cpc, language, content, result>>
    /\ UNCHANGED <<pvars, gvars>>

KotlinCompanionEnd ==
    /\ cpc = "compress_kotlin:companion_body"
    /\ ~(loc.j < Len(loc.lines) /\ loc.companion_brace_depth > 0)
    /\ loc' = KtContinue(loc)
    /\ cpc' = "compress_kotlin"
    /\ UNCHANGED <<language, content, result>>
    /\ UNCHANGED <<pvars, gvars>>

----------------------------------------------------------------------------
(* compress_kotlin: functions and constructors *)

\* while j < len(lines) and ')' not in lines[j]  (multi-line signature)
KotlinSignatureLoop ==
    /\ cpc = "compress_kotlin:signature"
    /\ loc.j < Len(loc.lines) /\ ~Contains(LineJ, ")")
    /\ loc' = [loc EXCEPT !.func_lines = Append(@, LineJ),
                          !.processed_lines = @ \cup {loc.j},
                          !.j = @ + 1]
    /\ UNCHANGED <<cpc, language, content, result>>
    /\ UNCHANGED <<pvars, gvars>>

KotlinSignatureEnd ==
    /\ cpc = "compress_kotlin:signature"
    /\ ~(loc.j < Len(loc.lines) /\ ~Contains(LineJ, ")"))
    /\ loc' = IF loc.j < Len(loc.lines)
              THEN [loc EXCEPT !.func_lines = Append(@, LineJ),
                               !.processed_lines = @ \cup {loc.j},
                               !.j = @ + 1]
              ELSE loc
    /\ cpc' = "compress_kotlin:has_body"
    /\ UNCHANGED <<language, content, result>>
    /\ UNCHANGED <<pvars, gvars>>

\* for fl in func_lines: if '{' in fl: func_brace_depth += ...
RECURSIVE SignatureDepth(_)
SignatureDepth(func_lines) ==
    IF func_lines = <<>> THEN 0
    ELSE (IF Contains(Head(func_lines), "{") THEN Braces(Head(func_lines)) ELSE 0)
         + SignatureDepth(Tail(func_lines))

\* the locals once has_body is known: a signature alone is emitted, a body is
\* about to be collected
KtBodyStart(l) ==
    IF ~l.has_body
    THEN KtContinue([l EXCEPT !.extracted = @ \o l.full_sig])
    ELSE [l EXCEPT !.func_brace_depth = SignatureDepth(l.func_lines),
                   !.func_started = \E n \in 1..Len(l.func_lines) :
                                        Contains(l.func_lines[n], "{"),
                   !.body_lines = <<>>,
                   !.return_lines = <<>>]

KtBodyStartPc(l) == IF l.has_body THEN "compress_kotlin:body" ELSE "compress_kotlin"

\* full_sig, has_body and the first look at the line after the signature
KotlinHasBody ==
    /\ cpc = "compress_kotlin:has_body"
    /\ LET in_sig == \E n \in 1..Len(loc.func_lines) : Contains(loc.func_lines[n], "{")
           sig == [loc EXCEPT !.full_sig = loc.func_lines, !.has_body = in_sig]
           next_line == Strip(LineJ)
       IN  IF ~in_sig /\ loc.j < Len(loc.lines)
           THEN IF At(next_line, 1) = "{"
                THEN /\ loc' = KtBodyStart([sig EXCEPT !.has_body = TRUE])
                     /\ cpc' = "compress_kotlin:body"
                ELSE IF next_line = <<>> \/ StartsComment(next_line)
                THEN /\ loc' = [sig EXCEPT !.k = loc.j + 1]
                     /\ cpc' = "compress_kotlin:lookahead"
                ELSE /\ loc' = KtBodyStart(sig)
                     /\ cpc' = KtBodyStartPc(sig)
           ELSE /\ loc' = KtBodyStart(sig)
                /\ cpc' = KtBodyStartPc(sig)
    /\ UNCHANGED <<language, content, result>>
    /\ UNCHANGED <<pvars, gvars>>

\* lines[k] is empty or a comment
Skippable(l) ==
    LET line == Strip(Item(l.lines, l.k)) IN line = <<>> \/ StartsComment(line)

\* while k < len(lines) and (lines[k].strip() == '' or ...startswith('//'))
KotlinLookaheadLoop ==
    /\ cpc = "compress_kotlin:lookahead"
    /\ loc.k < Len(loc.lines) /\ Skippable(loc)
    /\ loc' = [loc EXCEPT !.k = @ + 1]
    /\ UNCHANGED <<cpc, language, content, result>>
    /\ UNCHANGED <<pvars, gvars>>

KotlinLookaheadEnd ==
    /\ cpc = "compress_kotlin:lookahead"
    /\ ~(loc.k < Len(loc.lines) /\ Skippable(loc))
    /\ LET found == [loc EXCEPT !.has_body =
                         /\ loc.k < Len(loc.lines)
                         /\ At(Strip(Item(loc.lines, loc.k)), 1) = "{"]
       IN  /\ loc' = KtBodyStart(found)
           /\ cpc' = KtBodyStartPc(found)
    /\ UNCHANGED <<language, content, result>>
    /\ UNCHANGED <<pvars, gvars>>

\* signature + first max_body_lines body lines + marker + last lines
KtFunctionOutput(func_lines, body_lines) ==
    LET total_body == Len(body_lines)
        first_lines == SubSeq(body_lines, 1,
                              IF total_body < max_body_lines THEN total_body
                              ELSE max_body_lines)
        remaining == total_body - max_body_lines
        closes == Strip(body_lines[total_body]) = <<"}">>
        last_lines == IF closes
                      THEN SubSeq(body_lines, total_body - last_lines_count,
                                  total_body - 1)
                      ELSE SubSeq(body_lines, total_body - last_lines_count + 1,
                                  total_body)
        Fresh(ll) == Strip(ll) # <<>> /\ \A n \in 1..Len(first_lines) : first_lines[n] # ll
    IN  IF body_lines = <<>> THEN func_lines
        ELSE func_lines \o first_lines
             \o (IF remaining > last_lines_count
                 THEN <<<<IND, "//", "...", "(", ToString(remaining - last_lines_count),
                          "more", "lines", ")">>>>
                      \o SelectSeq(last_lines, Fresh)
                      \o <<IF closes THEN body_lines[total_body] ELSE <<IND, "}">>>>
                 ELSE IF remaining > 0
                 THEN SubSeq(body_lines, max_body_lines + 1, total_body)
                 ELSE <<>>)

\* extracted.append('\n'.join(output_lines)); continue
KtEmit(l) ==
    KtContinue([l EXCEPT !.extracted = @ \o KtFunctionOutput(l.func_lines, l.body_lines)])

\* body_stripped.startswith('return ') or body_stripped == 'return'
KtReturn(stripped) ==
    At(stripped, 1) = "return" /\ (Len(stripped) = 1 \/ Spaced(stripped, 2))

\* one iteration of "while j < len(lines)" collecting the body
KotlinBodyLoop ==
    /\ cpc = "compress_kotlin:body"
    /\ loc.j < Len(loc.lines)
    /\ LET body_line == LineJ
           body_stripped == Strip(body_line)
           started == loc.func_started \/ Contains(body_stripped, "{")
           depth == loc.func_brace_depth + Braces(body_stripped)
           kept == body_stripped # <<>> /\ ~StartsComment(body_stripped)
           counted == [loc EXCEPT
                          !.func_started = TRUE,
                          !.func_brace_depth = depth,
                          !.processed_lines = @ \cup {loc.j},
                          !.body_lines = IF kept THEN Append(@, body_line) ELSE @,
                          !.return_lines = IF kept /\ KtReturn(body_stripped)
                                           THEN Append(@, body_line) ELSE @]
       IN  IF ~started
           THEN /\ loc' = [loc EXCEPT !.j = @ + 1]
                /\ cpc' = cpc
           ELSE IF depth <= 0
           THEN /\ loc' = KtEmit(counted)
                /\ cpc' = "compress_kotlin"
           ELSE /\ loc' = [counted EXCEPT !.j = @ + 1]
                /\ cpc' = cpc
    /\ UNCHANGED <<language, content, result>>
    /\ UNCHANGED <<pvars, gvars>>

KotlinBodyEnd ==
    /\ cpc = "compress_kotlin:body"
    /\ ~(loc.j < Len(loc.lines))
    /\ loc' = KtEmit(loc)
    /\ cpc' = "compress_kotlin"
    /\ UNCHANGED <<language, content, result>>
    /\ UNCHANGED <<pvars, gvars>>

\* while j < len(lines) and ')' not in lines[j]  (multi-line constructor)
KotlinConstructorLoop ==
    /\ cpc = "compress_kotlin:constructor"
    /\ loc.j < Len(loc.lines) /\ ~Contains(LineJ, ")")
    /\ loc' = [loc EXCEPT !.full_sig = Append(@, LineJ),
                          !.processed_lines = @ \cup {loc.j},
                          !.j = @ + 1]
    /\ UNCHANGED <<cpc, language, content, result>>
    /\ UNCHANGED <<pvars, gvars>>

KotlinConstructorEnd ==
    /\ cpc = "compress_kotlin:constructor"
    /\ ~(loc.j < Len(loc.lines) /\ ~Contains(LineJ, ")"))
    /\ LET closed == IF loc.j < Len(loc.lines)
                     THEN [loc EXCEPT !.full_sig = Append(@, LineJ),
                                      !.processed_lines = @ \cup {loc.j}]
                     ELSE loc
       IN  loc' = KtContinue([closed EXCEPT !.extracted = @ \o closed.full_sig])
    /\ cpc' = "compress_kotlin"
    /\ UNCHANGED <<language, content, result>>
    /\ UNCHANGED <<pvars, gvars>>

----------------------------------------------------------------------------
(* compress_kotlin: the condensed imports and the result *)

\* imp.replace('import ', '')
RECURSIVE KtImportNameFrom(_, _)
KtImportNameFrom(imp, n) ==
    IF n > Len(imp) THEN <<>>
    ELSE (IF imp[n] = "import" /\ Spaced(imp, n + 1) THEN <<>> ELSE <<imp[n]>>)
         \o KtImportNameFrom(imp, n + 1)

KtImportName(imp) == KtImportNameFrom(imp, 1)

\* the first two parts of a dotted name, or the name when it has no dot
DottedPrefix(t) ==
    CASE t \in {"a.b", "a.b.C", "a.b.D", "a.b.E", "a.b.F"} -> "a.b"
      [] t = "c.d.G" -> "c.d"
      [] OTHER -> t

\* the group of an import that names one dotted name
KtImportKey(imp) == DottedPrefix(KtImportName(imp)[1])

\* sorted(import_groups.keys()), over the keys the imports of KotlinVocabulary have
KtSortedKeys == <<"a.b", "c.d", "h">>

KtImportGroup(imports, key) ==
    LET InGroup(imp) == KtImportKey(imp) = key
        group == SelectSeq(imports, InGroup)
    IN  IF Len(group) > 3
        THEN <<<<"//", key, ".*", "(", ToString(Len(group)), "imports", ")">>>>
        ELSE [n \in 1..Len(group) |-> <<"//">> \o KtImportName(group[n])]

KtImportBlock(imports) ==
    IF imports = <<>> THEN <<>>
    ELSE <<<<"//imports:">>>>
         \o Flatten([n \in 1..Len(KtSortedKeys) |-> KtImportGroup(imports, KtSortedKeys[n])])
         \o <<<<>>>>

\* result.extend(extracted); return '\n'.join(result)
KotlinReturn ==
    /\ cpc = "compress_kotlin"
    /\ loc.i = Len(loc.lines)
    /\ loc' = [loc EXCEPT !.ret = Join(KtImportBlock(loc.imports) \o loc.extracted)]
    /\ cpc' = "return"
    /\ UNCHANGED <<language, content, result>>
    /\ UNCHANGED <<pvars, gvars>>

KotlinVocabulary ==
    {<<>>, <<"//", "x">>, <<"/*", "x">>, <<"x", "*/">>, <<"{">>, <<"}">>,
     <<"package", "a.b">>, <<"import", "a.b.C">>, <<"import", "c.d.G">>, <<"import", "h">>,
     <<"@A">>, <<"@B", "(", "x">>, <<IND, "x", ")">>,
     <<"enum", "class", "E">>, <<"enum", "class", "E", "{">>, <<IND, "A", ",">>, <<IND, ";">>,
     <<"sealed", "class", "S">>, <<"sealed", "interface", "S", "{">>,
     <<IND, "data", "class", "D", "(", ")", ":", "S", "(", ")">>,
     <<IND, "companion", "object">>, <<IND, "companion", "object", "{">>,
     <<IND, "const", "val", "x", "=", "x">>,
     <<"class", "A", "{">>, <<"private", "interface", "I", "{">>,
     <<IND, "fun", "f", "(", ")">>, <<IND, "fun", "f", "(", ")", "{">>,
     <<IND, "fun", "f", "(">>,
     <<IND, "override", "suspend", "fun", "<T>", "f", "(", "x", ")", ":", "T", "{", "}">>,
     <<IND, "return", "x">>, <<IND, "constructor", "(", "x">>,
     <<IND, "init", "{">>, <<IND, "viewModelScope", ".launch", "{">>,
     <<IND, "h", ".collect", "{">>, <<IND, "f", ".invoke", "(", ")">>,
     <<IND, "when", "(", "x", ")", "{">>, <<IND, "is", "T", "->", "{">>,
     <<IND, "_s", ".value", "=", "x">>, <<IND, "_s", "=", Word50, LongWord>>,
     <<IND, "val", "x", "=", "x">>, <<IND, "private", "val", "x", ":", "T">>,
     <<IND, "val", "x", "=", Word45, LongWord>>,
     <<IND, "val", "x", ":", LongWord, LongWord>>,
     <<IND, "val", LongWord, ":", Word45, "=", "x">>,
     <<"typealias", "T", "=", "x">>}

\* longer Kotlin texts, line by line: long function bodies, a group of four
\* imports, an enum, a sealed class, a companion object, a signature of several
\* lines with its brace found by looking ahead, an init block
KotlinScenarios ==
    {<<<<"class", "A", "{">>, <<IND, "fun", "f", "(", ")", "{">>>>
       \o [n \in 1..12 |-> IF n = 2 THEN <<IND, "return", "x">> ELSE <<IND, "x">>]
       \o <<<<IND, "}">>, <<"}">>>>,
     <<<<IND, "fun", "f", "(", ")", "{">>>>
       \o [n \in 1..12 |-> <<IND, <<"x", "y", "f", "g", "A", "B", "I", "T", "E", "S", "D",
                                   "Q">>[n]>>]
       \o <<<<IND, "}">>>>,
     <<<<IND, "fun", "f", "(", ")">>, <<"{">>>>
       \o [n \in 1..13 |-> IF n % 2 = 0 THEN <<IND, "y">> ELSE <<IND, "x">>],
     <<<<"import", "a.b.C">>, <<"import", "h">>, <<"import", "a.b.D">>,
       <<"import", "a.b.C">>, <<"import", "c.d.G">>, <<"import", "a.b.E">>>>,
     <<<<"@A">>, <<"enum", "class", "E">>, <<"{">>, <<IND, "A", ",">>, <<"//", "x">>,
       <<IND, "B">>, <<IND, ";">>, <<IND, "val", "x", "=", "x">>, <<"}">>>>,
     <<<<"enum", "class", "E", "{">>, <<IND, "A">>, <<IND, "fun", "f", "(", ")">>,
       <<"}">>>>,
     <<<<"sealed", "class", "S">>, <<"{">>,
       <<IND, "data", "class", "D", "(", ")", ":", "S", "(", ")">>,
       <<IND, "object", "E", ":", "S", "(", ")", "{">>, <<IND, "}">>, <<"}">>,
       <<"class", "A", "{">>>>,
     <<<<IND, "companion", "object">>, <<IND, "{">>,
       <<IND, "const", "val", "x", "=", "x">>, <<IND, "val", "y", "=", "x">>,
       <<IND, "fun", "f", "(", ")", "{">>, <<IND, "val", "y", "=", "x">>, <<IND, "}">>,
       <<IND, "}">>, <<"}">>>>,
     <<<<IND, "fun", "f", "(">>, <<IND, "x", ",">>, <<IND, "x", ")">>, <<>>,
       <<"//", "x">>, <<"{">>, <<IND, "return">>, <<"}">>>>,
     <<<<IND, "fun", "f", "(", ")">>, <<"//", "x">>, <<IND, "val", "x", "=", "x">>>>,
     <<<<"@B", "(", "x">>, <<IND, "x">>, <<IND, "x", ")">>,
       <<IND, "constructor", "(", "x">>, <<IND, "x">>, <<IND, "x", ")">>>>,
     <<<<IND, "init", "{">>, <<IND, "viewModelScope", ".launch", "{">>,
       <<IND, "h", ".collect", "{">>, <<IND, "when", "(", "x", ")", "{">>,
       <<IND, "is", "T", "->", "{">>, <<IND, "_s", "=", Word50, LongWord>>, <<>>,
       <<"//", "x">>, <<"}">>, <<"}">>, <<"}">>, <<"}">>, <<"}">>,
       <<IND, "val", "x", "=", "x">>>>,
     <<<<"class", "A", "{">>, <<IND, "fun", "f", "(", ")", "{">>, <<IND, "x">>,
       <<IND, "}">>, <<IND, "fun", "f", "(", ")", "{">>, <<IND, "y">>, <<IND, "}">>,
       <<IND, "val", "x", "=", "x">>, <<"}">>>>,
     <<<<"@A">>, <<"typealias", "T", "=", "x">>, <<"class", "A", "{">>>>,
     <<<<"class", "A", "{">>, <<IND, "init", "{", "}">>, <<IND, "val", "x", "=", "x">>,
       <<"}">>>>,
     <<<<"sealed", "interface", "S", "{">>, <<IND, "val", "x", "=", "x">>,
       <<IND, "data", "class", "D", "(", ")", ":", "S", "(", ")">>, <<"}">>>>}

\* the texts for compress_kotlin: the short ones, and every beginning of a
\* longer one, which leaves its constructs unterminated
KotlinTexts ==
    TextsOf(KotlinVocabulary, MaxKotlinLines)
    \cup UNION {{Join(SubSeq(ls, 1, n)) : n \in 1..Len(ls)} : ls \in KotlinScenarios}

----------------------------------------------------------------------------
(* compress_content *)

Kotlin == "compress_kotlin"
TypeScript == "compress_typescript"
Python == "compress_python"
Aidl == "compress_aidl"
Groovy == "compress_groovy"
GraphQL == "compress_graphql"

\* the compressors dictionary
compressors ==
    [l \in {"kotlin", "gradle-kotlin", "typescript", "javascript", "tsx", "jsx",
            "python", "aidl", "gradle", "groovy", "graphql"} |->
        CASE l \in {"kotlin", "gradle-kotlin"} -> Kotlin
          [] l \in {"typescript", "javascript", "tsx", "jsx"} -> TypeScript
          [] l = "python" -> Python
          [] l = "aidl" -> Aidl
          [] l \in {"gradle", "groovy"} -> Groovy
          [] l = "graphql" -> GraphQL]

compressor_for_Default(l) ==
    IF l \in DOMAIN compressors THEN Some(compressors[l]) ELSE Some(Aidl)

\* compressors.get(language)
compressor_for(l) == IF l \in DOMAIN compressors THEN Some(compressors[l]) ELSE None

\* language tags detect_language can return
LanguageTags ==
    DOMAIN compressors \cup {"java", "xml", "unknown"}

\* str.strip() of a text is empty
Blank(text) == \A n \in 1..Len(text) : text[n] \in {IND, NL}

FallbackResult_Never(compressed, original) == compressed

\* return compressed if compressed.strip() else content
FallbackResult(compressed, original) ==
    IF ~Blank(compressed) THEN compressed ELSE original

StartOf(compressor, text) ==
    CASE compressor = Aidl -> AidlStart(text)
      [] compressor = Groovy -> GroovyStart(text)
      [] compressor = Python -> PythonStart(text)
      [] compressor = TypeScript -> TypeScriptStart(text)
      [] compressor = GraphQL -> GraphQLStart(text)
      [] compressor = Kotlin -> KotlinStart(text)

VocabularyOf(l) ==
    CASE l = "aidl" -> AidlVocabulary
      [] l \in {"gradle", "groovy"} -> GroovyVocabulary
      [] l = "python" -> PythonVocabulary
      [] l \in {"typescript", "javascript", "tsx", "jsx"} -> TypeScriptVocabulary
      [] l = "graphql" -> GraphQLVocabulary
      [] l \in {"kotlin", "gradle-kotlin"} -> KotlinVocabulary
      [] OTHER -> AidlVocabulary

\* the texts compress_content is called with under a tag: every text of the
\* vocabulary for the first tag of a compressor and for one tag without a
\* compressor, the texts of one line for the other tags, which only repeat
\* the lookup
InputsOf(l) ==
    CASE l = "kotlin" -> KotlinTexts
      [] l = "python" -> PythonTexts
      [] l = "graphql" -> GraphQLTexts
      [] l \in {"typescript", "aidl", "gradle", "java"} ->
            TextsOf(VocabularyOf(l), MaxLines)
      [] OTHER -> TextsOf(VocabularyOf(l), 1)

InitCompress ==
    /\ pc = "idle"
    /\ max_tokens = 0
    /\ start_num = 0
    /\ include_tree = FALSE
    /\ folder = "dir"
    /\ access = [i \in 1..MaxFiles |-> "ok"]
    /\ folder_path = DefaultFolderPathLen
    /\ root_tag = DefaultRootTagLen
    /\ files = <<>>
    /\ paths = <<>>
    /\ image_count = 0
    /\ tree_section = None
    /\ images_section = None
    /\ idx = 0
    /\ chunks = <<>>
    /\ current_chunk = <<>>
    /\ current_tokens = 0
    /\ counter = 0
    /\ chunk_file_count = 0
    /\ large_standalone_files = <<>>
    /\ written = <<>>
    /\ cpc = "call"
    /\ language \in LanguageTags
    /\ content \in InputsOf(language)
    /\ loc = [f |-> "none"]
    /\ result = <<>>
    /\ changed_only = FALSE
    /\ uncommitted = FALSE
    /\ commits = None
    /\ pr = None
    /\ changed_result = None
    /\ branch_diff_result = None
    /\ diff_result = None
    /\ logs_with_diffs_result = None
    /\ git_queries = <<>>
    /\ git_file = None

\* compress_content(content, language) with a language that has a compressor
CompressSupported ==
    /\ cpc = "call"
    /\ compressor_for(language) # None
    /\ loc' = StartOf(compressor_for(language)[1], content)
    /\ cpc' = compressor_for(language)[1]
    /\ UNCHANGED <<language, content, result>>
    /\ UNCHANGED <<pvars, gvars>>

\* compress_content(content, language) with any other language
CompressUnsupported ==
    /\ cpc = "call"
    /\ compressor_for(language) = None
    /\ result' = content
    /\ cpc' = "done"
    /\ UNCHANGED <<language, content, loc>>
    /\ UNCHANGED <<pvars, gvars>>

\* compressed = compressor(content); return compressed if compressed.strip() else content
CompressReturn ==
    /\ cpc = "return"
    /\ result' = FallbackResult(loc.ret, content)
    /\ cpc' = "done"
    /\ UNCHANGED <<language, content, loc>>
    /\ UNCHANGED <<pvars, gvars>>

NextCompress ==
    \/ CompressSupported
    \/ CompressUnsupported
    \/ CompressReturn
    \/ AidlLine
    \/ AidlReturn
    \/ GroovyLine
    \/ GroovyReturn
    \/ PythonLine
    \/ PythonSignature
    \/ PythonSignatureLoop
    \/ PythonSignatureEnd
    \/ PythonReturn
    \/ TypeScriptLine
    \/ TypeScriptReturn
    \/ GraphQLLine
    \/ GraphQLReturn
    \/ KotlinLine
    \/ KotlinAnnotationLoop
    \/ KotlinAnnotationEnd
    \/ KotlinEnumOpen
    \/ KotlinEnumOpenEnd
    \/ KotlinEnumEntry
    \/ KotlinEnumEnd
    \/ KotlinSealedOpen
    \/ KotlinSealedOpenEnd
    \/ KotlinSealedBody
    \/ KotlinSealedEnd
    \/ KotlinCompanionOpen
    \/ KotlinCompanionOpenEnd
    \/ KotlinCompanionBody
    \/ KotlinCompanionEnd
    \/ KotlinSignatureLoop
    \/ KotlinSignatureEnd
    \/ KotlinHasBody
    \/ KotlinLookaheadLoop
    \/ KotlinLookaheadEnd
    \/ KotlinBodyLoop
    \/ KotlinBodyEnd
    \/ KotlinConstructorLoop
    \/ KotlinConstructorEnd
    \/ KotlinReturn

SpecCompress == InitCompress /\ [][NextCompress]_vars

\* a call that has started keeps running: the interpreter takes the next step
\* of the one thread there is
SpecCompressFair == SpecCompress /\ WF_vars(NextCompress)

----------------------------------------------------------------------------
(* compress_content called again on what it returned *)

\* one tag for each compressor, and one without
TwiceTags == {"kotlin", "typescript", "python", "aidl", "gradle", "graphql", "java"}

InitCompressTwice ==
    /\ pc = "first"
    /\ max_tokens = 0
    /\ start_num = 0
    /\ include_tree = FALSE
    /\ folder = "dir"
    /\ access = [i \in 1..MaxFiles |-> "ok"]
    /\ folder_path = DefaultFolderPathLen
    /\ root_tag = DefaultRootTagLen
    /\ files = <<>>
    /\ paths = <<>>
    /\ image_count = 0
    /\ tree_section = None
    /\ images_section = None
    /\ idx = 0
    /\ chunks = <<>>
    /\ current_chunk = <<>>
    /\ current_tokens = 0
    /\ counter = 0
    /\ chunk_file_count = 0
    /\ large_standalone_files = <<>>
    /\ written = <<>>
    /\ cpc = "call"
    /\ language \in TwiceTags
    /\ content \in InputsOf(language)
    /\ loc = [f |-> "none"]
    /\ result = <<>>
    /\ changed_only = FALSE
    /\ uncommitted = FALSE
    /\ commits = None
    /\ pr = None
    /\ changed_result = None
    /\ branch_diff_result = None
    /\ diff_result = None
    /\ logs_with_diffs_result = None
    /\ git_queries = <<>>
    /\ git_file = None

\* compress_content(compress_content(content, language), language): the second call
CompressAgain ==
    /\ pc = "first"
    /\ cpc = "done"
    /\ pc' = "second"
    /\ content' = result
    /\ result' = <<>>
    /\ loc' = [f |-> "none"]
    /\ cpc' = "call"
    /\ UNCHANGED <<lvars, gvars, language>>

NextCompressTwice == NextCompress \/ CompressAgain

SpecCompressTwice == InitCompressTwice /\ [][NextCompressTwice]_vars

----------------------------------------------------------------------------
(* Properties of compress_content *)

Returned == cpc = "done"

\* the tags the specification lists as having a compressor
SupportedTags ==
    {"kotlin", "gradle-kotlin", "typescript", "javascript", "tsx", "jsx", "python",
     "aidl", "gradle", "groovy", "graphql"}

\* C7: compress_content never returns an empty or whitespace-only text for an
\* input that is not itself empty or whitespace-only: whenever the compressor of
\* the language produced an empty or whitespace-only text, the result is exactly
\* the original input
C7_NeverBlank ==
    Returned =>
        /\ ~Blank(content) => ~Blank(result)
        /\ (language \in SupportedTags /\ Blank(loc.ret)) => result = content

\* an input of comments or imports only, whose compressor produced nothing
C7_Witness ==
    /\ Returned
    /\ language \in SupportedTags
    /\ ~Blank(content)
    /\ Blank(loc.ret)
    /\ result = content

\* C8: for every language tag outside the supported ones compress_content
\* returns its input text unchanged
C8_UnsupportedUnchanged ==
    (Returned /\ language \notin SupportedTags) => result = content

\* a text a compressor would have changed, returned as it is under another tag
C8_Witness ==
    /\ Returned
    /\ language \notin SupportedTags
    /\ \E n \in 1..Len(content) : content[n] = "//"
    /\ Len(Split(content)) >= 2
    /\ result = content

\* the call is inside a compressor
Running == cpc \notin {"idle", "call", "return", "done"}

\* every index a compressor is about to read with is inside the list of lines
\* or just past its end, where the loops stop
CursorsInRange ==
    Running =>
        /\ loc.i <= Len(loc.lines)
        /\ loc.f \in {"compress_kotlin", "compress_python"} => loc.j <= Len(loc.lines)
        /\ loc.f = "compress_kotlin" => loc.k <= Len(loc.lines)

\* C10: every compressor terminates and returns a text, without raising, on
\* every input, also when braces, block comments, docstrings, parentheses, an
\* init block or a function body are still open at the end of the text: no
\* cursor leaves the lines, and every call returns
C10_Terminates == []CursorsInRange /\ <>Returned

\* a Kotlin text that ends inside a function body has been compressed
C10_Witness ==
    /\ Returned
    /\ language = "kotlin"
    /\ loc.f = "compress_kotlin"
    /\ loc.func_brace_depth > 0
    /\ loc.body_lines # <<>>
    /\ ~Blank(result)

----------------------------------------------------------------------------
(* Properties of compress_kotlin *)

KotlinReturned == Returned /\ language = "kotlin"

\* a line starts a class/object, interface, function or typealias declaration
StartsDeclaration(line) ==
    LET stripped == Strip(line)
    IN  \/ KtClass(stripped) \/ KtInterface(stripped)
        \/ KtFunction(stripped) \/ KtTypealias(stripped)

\* a line that may open a function body, an init block or a parenthesis that
\* stays open after the line
OpensBlock(line) ==
    LET stripped == Strip(line)
    IN  \/ KtInit(stripped)
        \/ KtFunction(stripped) /\ ~(Contains(stripped, "{") /\ Braces(stripped) = 0)
        \/ OpenParen(stripped)

\* line n of the lines is outside comments, function bodies and init blocks
\* whatever way they are delimited: the text has no comment and nothing before
\* the line opens a body or a parenthesis
PlainlyTopLevel(lines, n) ==
    /\ \A m \in 1..Len(lines) :
          ~Contains(lines[m], "//") /\ ~Contains(lines[m], "/*")
          /\ ~Contains(lines[m], "*/")
    /\ \A m \in 1..(n - 1) : ~OpensBlock(lines[m])

\* the line is one of the lines of the text
AppearsIn(line, text) ==
    \E n \in 1..Len(Split(text)) : Strip(Split(text)[n]) = Strip(line)

\* C11: the Kotlin compressor never silently drops a supported declaration:
\* every input line outside comments, function bodies and init blocks that
\* starts a class/object, interface, function or typealias declaration appears
\* in the output, whatever declarations precede it
C11_NoDeclarationDropped ==
    KotlinReturned =>
        \A n \in 1..Len(Split(content)) :
            (StartsDeclaration(Split(content)[n]) /\ PlainlyTopLevel(Split(content), n))
                => AppearsIn(Split(content)[n], result)

\* the lines emitted for the function whose signature and body the locals hold
LastOutput == KtFunctionOutput(loc.func_lines, loc.body_lines)

\* the last thing extracted is the output of a function with a body
FunctionEmitted ==
    /\ cpc \in {"compress_kotlin", "return", "done"}
    /\ loc.f = "compress_kotlin"
    /\ loc.has_body
    /\ loc.body_lines # <<>>
    /\ Len(loc.extracted) >= Len(LastOutput)
    /\ SubSeq(loc.extracted, Len(loc.extracted) - Len(LastOutput) + 1, Len(loc.extracted))
           = LastOutput

\* a truncation marker: // ... (N more lines)
IsMarker(line) ==
    /\ Len(line) = 8
    /\ line[2] = "//" /\ line[3] = "..." /\ line[4] = "("
    /\ line[6] = "more" /\ line[7] = "lines" /\ line[8] = ")"

Markers(lines) == {n \in 1..Len(lines) : IsMarker(lines[n])}

\* the last collected body line is the closing brace
BodyCloses == Strip(loc.body_lines[Len(loc.body_lines)]) = <<"}">>

\* the collected body lines that are not in the output: what the output holds
\* after the signature is body lines, one marker and, when the body has no
\* closing brace of its own, one brace that is not a body line
BodyLinesNotEmitted ==
    Len(loc.body_lines)
    - (Len(LastOutput) - Len(loc.func_lines) - 1 - (IF BodyCloses THEN 0 ELSE 1))

\* C12: when the body preview emits a truncation marker for a function, there
\* is exactly one marker and the number it states is the number of collected
\* body lines that are not emitted for that function
C12_MarkerCountsOmitted ==
    (FunctionEmitted /\ Markers(LastOutput) # {}) =>
        /\ Cardinality(Markers(LastOutput)) = 1
        /\ \A n \in Markers(LastOutput) :
               LastOutput[n][5] = ToString(BodyLinesNotEmitted)

\* C13: the first 8 collected body lines are emitted verbatim and in order
\* after the signature; if 3 or fewer collected body lines remain beyond those
\* 8, all of them are emitted in order and there is no marker
C13_FirstLinesAndShortTail ==
    FunctionEmitted =>
        LET sig == Len(loc.func_lines)
            total == Len(loc.body_lines)
            first == IF total < 8 THEN total ELSE 8
        IN  /\ SubSeq(LastOutput, 1, sig) = loc.func_lines
            /\ SubSeq(LastOutput, sig + 1, sig + first) = SubSeq(loc.body_lines, 1, first)
            /\ total - 8 <= 3 =>
                   /\ LastOutput = loc.func_lines \o loc.body_lines
                   /\ Markers(LastOutput) = {}

\* a function with 9 to 11 collected body lines has been emitted whole
C13_Witness ==
    /\ FunctionEmitted
    /\ Len(loc.body_lines) \in 9..11
    /\ Returned
    /\ \A n \in 1..Len(LastOutput) : AppearsIn(LastOutput[n], result)

\* a function with 12 different body lines, none a return, then its brace
ScenarioC ==
    /\ FunctionEmitted
    /\ Len(loc.func_lines) = 1
    /\ Len(loc.body_lines) = 13
    /\ BodyCloses
    /\ \A n \in 1..12 : ~KtReturn(Strip(loc.body_lines[n]))
    /\ \A n, m \in 1..13 : n # m => loc.body_lines[n] # loc.body_lines[m]

\* C14: for a function with 12 body lines and no early return the output is the
\* signature, the first 8 body lines, one truncation marker stating 1 more
\* line, the last 3 body lines, then the closing brace
C14_ScenarioC ==
    ScenarioC =>
        LastOutput = loc.func_lines \o SubSeq(loc.body_lines, 1, 8)
                     \o <<<<IND, "//", "...", "(", "1", "more", "lines", ")">>>>
                     \o SubSeq(loc.body_lines, 10, 12)
                     \o <<loc.body_lines[13]>>

----------------------------------------------------------------------------
(* Properties of compress_graphql *)

\* a line with structural text, then # after an even number of double quotes
HasInlineComment(line) ==
    LET stripped == Strip(line)
    IN  /\ Contains(stripped, "#")
        /\ At(stripped, 1) # "#"
        /\ QuoteCount(BeforeHash(stripped)) % 2 = 0

\* the line without its # and everything after it
StructuralText(line) == Indent(line) \o RStrip(BeforeHash(Strip(line)))

\* C17: in the GraphQL compressor, a line that has structural text followed by
\* # and comment text, with an even number of double quotes before the #, is
\* emitted as the structural text only: the # and everything after it are
\* removed
C17_InlineCommentRemoved ==
    (Returned /\ language = "graphql" /\ ~Contains(content, TripleQuote)) =>
        \A n \in 1..Len(Split(content)) :
            HasInlineComment(Split(content)[n]) =>
                /\ \E m \in 1..Len(Split(result)) :
                       Split(result)[m] = StructuralText(Split(content)[n])
                /\ \A m \in 1..Len(Split(result)) :
                       Split(result)[m] # RStrip(Split(content)[n])

----------------------------------------------------------------------------
(* Properties of the packer *)

Min(S) == CHOOSE x \in S : \A y \in S : x <= y

Packed == pc \in {"write", "done"}

ChunkTokens(chunk) ==
    SumSeq([k \in 1..Len(chunk.content) |-> snippet_tokens_of(chunk.content[k])])

Reported(num) ==
    \E k \in 1..Len(large_standalone_files) : large_standalone_files[k].code_num = num

OversizedSingleton(chunk) ==
    Len(chunk.content) = 1 /\ Reported(chunk.content[1].num)

FileTokens == [i \in 1..Len(files) |-> estimate_tokens(files[i])]

\* C1: every produced chunk that is not a single-record chunk reported as
\* oversized has (sum of its records' tokens) + base overhead <= max_tokens.
C1_ChunkWithinBudget ==
    \A k \in 1..Len(chunks) :
        ~OversizedSingleton(chunks[k])
            => ChunkTokens(chunks[k]) + base_overhead_tokens <= max_tokens

C1_Witness ==
    /\ pc = "done"
    /\ \E k \in 1..Len(chunks) : Len(chunks[k].content) >= 2
    /\ \E k \in 1..Len(chunks) : OversizedSingleton(chunks[k])

\* C2: with a tree and/or images attachment, the first chunk, unless it is an
\* oversized singleton, has (sum of its records' tokens) + base overhead
\* + tree tokens + image tokens <= max_tokens.
C2_FirstChunkWithinBudget ==
    (Packed /\ Len(chunks) >= 1 /\ (tree_section # None \/ images_section # None)
        /\ ~OversizedSingleton(chunks[1]))
        => ChunkTokens(chunks[1]) + first_chunk_overhead <= max_tokens

\* C3: a record whose tokens alone exceed max_tokens - base overhead is the only
\* record of its chunk and is in the oversized list; it is never in the
\* accumulator.
C3_OversizedAlone ==
    /\ \A k \in 1..Len(chunks) : \A n \in 1..Len(chunks[k].content) :
           snippet_tokens_of(chunks[k].content[n]) > max_tokens - base_overhead_tokens
               => OversizedSingleton(chunks[k])
    /\ \A n \in 1..Len(current_chunk) :
           snippet_tokens_of(current_chunk[n]) <= max_tokens - base_overhead_tokens
    /\ Packed => \A i \in 1..Len(files) :
           FileTokens[i] > max_tokens - base_overhead_tokens
               => \E k \in 1..Len(chunks) :
                      /\ OversizedSingleton(chunks[k])
                      /\ chunks[k].content[1].src = i

C3_Witness ==
    /\ pc = "done"
    /\ \E k \in 2..(Len(chunks) - 1) :
           /\ OversizedSingleton(chunks[k])
           /\ Len(chunks[k - 1].content) >= 2
           /\ ~OversizedSingleton(chunks[k + 1])
    /\ \E k \in 1..Len(chunks) :
           /\ OversizedSingleton(chunks[k])
           /\ snippet_tokens_of(chunks[k].content[1]) <= max_tokens

\* C4: each record is in exactly one chunk, whole, and in input order: the
\* chunks' contents concatenated in chunk order are the input sequence.
C4_ContentsAreInput ==
    LET placed == Flatten([k \in 1..Len(chunks) |-> chunks[k].content])
                      \o (IF pc = "pack" THEN current_chunk ELSE <<>>)
    IN  /\ Len(placed) = idx
        /\ \A n \in 1..Len(placed) : placed[n].src = n /\ placed[n].len = files[n]
        /\ Packed => idx = Len(files)

C4_Witness ==
    /\ pc = "done"
    /\ Len(files) = MaxFiles
    /\ Len(chunks) >= 3
    /\ \E k \in 1..Len(chunks) : OversizedSingleton(chunks[k])

\* C5: the chunks' id ranges (start_num, file_count) are exact and tile
\* start..start+N-1: chunk 1 starts at the start number, each chunk's start_num
\* is the id of its first record, its file_count is its number of records, and
\* each chunk starts one past the last id of the chunk before it.
C5_RangesTile ==
    Packed =>
        /\ \A k \in 1..Len(chunks) :
               /\ chunks[k].file_count = Len(chunks[k].content)
               /\ chunks[k].file_count >= 1
               /\ \A n \in 1..Len(chunks[k].content) :
                      chunks[k].content[n].num = chunks[k].start_num + n - 1
               /\ chunks[k].start_num =
                      IF k = 1 THEN start_num
                      ELSE chunks[k - 1].start_num + chunks[k - 1].file_count
        /\ SumSeq([k \in 1..Len(chunks) |-> chunks[k].file_count]) = Len(files)

C5_Witness ==
    /\ pc = "done"
    /\ start_num > 1
    /\ Len(chunks) >= 3
    /\ \E k \in 1..Len(chunks) : chunks[k].file_count >= 2
    /\ \E k \in 1..Len(chunks) : OversizedSingleton(chunks[k])

\* The least number of chunks of a contiguous, order-preserving partition of
\* sizes s in which every chunk's total size is at most cap.
RECURSIVE MinChunks(_, _)
MinChunks(s, cap) ==
    IF s = <<>> THEN 0
    ELSE LET fits == {k \in 1..Len(s) : SumSeq(SubSeq(s, 1, k)) <= cap}
         IN  IF fits = {} THEN Len(s) + 1
             ELSE 1 + Min({MinChunks(SubSeq(s, k + 1, Len(s)), cap) : k \in fits})

AllBelowBudget ==
    \A i \in 1..Len(files) : max_tokens > FileTokens[i] + base_overhead_tokens

ChunkSources ==
    [k \in 1..Len(chunks) |->
        [n \in 1..Len(chunks[k].content) |-> chunks[k].content[n].src]]

NoAttachments == tree_section = None /\ images_section = None

\* three records of 1000 tokens, budget 2500, the base overhead of 500
ScenarioA ==
    /\ Packed
    /\ NoAttachments
    /\ max_tokens = 2500
    /\ FileTokens = <<1000, 1000, 1000>>

\* C15: Scenario A: three records of 1000 tokens each with budget 2500 and
\* overhead 500 are packed into exactly two chunks, [R1,R2] then [R3], and none
\* is reported as oversized
C15_ScenarioA ==
    ScenarioA =>
        /\ base_overhead_tokens = 500
        /\ ChunkSources = <<<<1, 2>>, <<3>>>>
        /\ large_standalone_files = <<>>

C15_Witness == ScenarioA /\ pc = "done" /\ Len(written) = 2

\* records of 100, 100, 5000 and 100 tokens, budget 1000
ScenarioB ==
    /\ Packed
    /\ NoAttachments
    /\ max_tokens = 1000
    /\ FileTokens = <<100, 100, 5000, 100>>

\* the tests the packing loop makes on Scenario B come out the same with the
\* overhead o as with the overhead the code charges
SameTestsWith(o) ==
    /\ \A t \in {100, 5000} :
           ExceedsAlone(t, o) = ExceedsAlone(t, base_overhead_tokens)
    /\ \A c \in {0, 100} :
           ExceedsAdded(c, 100, o, <<1>>) = ExceedsAdded(c, 100, base_overhead_tokens, <<1>>)

\* C16: Scenario B: records of sizes [100, 100, 5000, 100] with budget 1000 and
\* overhead 200 are packed into exactly three chunks [R1,R2], [R3], [R4], with
\* R3 the only record reported as oversized.  The code's overhead is its own
\* constant; every test of the loop on these records has the same outcome with
\* an overhead of 200
C16_ScenarioB ==
    ScenarioB =>
        /\ SameTestsWith(200)
        /\ ChunkSources = <<<<1, 2>>, <<3>>, <<4>>>>
        /\ Len(large_standalone_files) = 1
        /\ large_standalone_files[1].code_num = start_num + 2
        /\ large_standalone_files[1].tokens = 5000

C16_Witness == ScenarioB /\ pc = "done" /\ Len(written) = 3

\* C18: an invalid configuration (target path missing, target path not a
\* directory, or max_tokens below 1000) aborts the run with a non-zero exit
\* before any file is listed, read, compressed or written; no chunk is ever
\* produced in a run whose max_tokens is below 1000
C18_InvalidConfigurationAborts ==
    (folder \in {"missing", "file"} \/ max_tokens < 1000) =>
        /\ pc \in {"validate", "exit1"}
        /\ files = <<>> /\ image_count = 0 /\ idx = 0
        /\ tree_section = None /\ images_section = None
        /\ chunks = <<>> /\ current_chunk = <<>>
        /\ written = <<>>
        /\ cpc = "idle"

\* a run on a directory with max_tokens below 1000 has exited with status 1
C18_Witness ==
    /\ pc = "exit1"
    /\ folder = "dir"
    /\ max_tokens < 1000
    /\ chunks = <<>>
    /\ written = <<>>

----------------------------------------------------------------------------
(* Properties of the git queries *)

\* main() is at one of its calls of a git query
GitStages == {"changed_only", "changed_files", "git", "git_pr", "git_diff", "git_commits"}

\* the query gave its caller a value: no exception left it
QueryReturned(q) == q.escaped = "none" /\ DOMAIN q.value # {}

\* the value says the query failed, and why
Failed(q) ==
    /\ IF q.query = "is_git_repository" THEN ~q.value.is_repo ELSE ~q.value.success
    /\ Truthy(q.value.error)

QueriesReturned ==
    /\ pc # "crash"
    /\ \A k \in 1..Len(git_queries) :
          /\ QueryReturned(git_queries[k])
          /\ git_queries[k].exc = "timeout" => Failed(git_queries[k])

\* the run is over: nothing was found to pack, or every chunk was written
RunFinished == pc = "exit0" \/ (pc = "done" /\ Len(written) = Len(chunks))

\* C19: every git query (is_git_repository, get_git_diff,
\* get_git_logs_with_diffs, get_branch_diff, get_git_changed_files) returns a
\* result value whatever its subprocess calls do (exit status 0, another exit
\* status, a timeout of any of its calls, no git executable); after a timeout
\* the result has success false and a non-empty error; no exception leaves the
\* query, and the run goes on to pack and to write its chunks
C19_GitQueriesNeverAbort ==
    /\ []QueriesReturned
    /\ (pc \in GitStages) ~> RunFinished

\* a run has written its chunks after 'git diff HEAD' timed out in get_git_diff,
\* whose first call had succeeded, and after another query had succeeded
C19_Witness ==
    /\ pc = "done"
    /\ written # <<>>
    /\ git_file # None
    /\ \E k \in 1..Len(git_queries) :
          /\ git_queries[k].query = "get_git_diff"
          /\ git_queries[k].exc = "timeout"
          /\ git_queries[k].value.stat # ""
          /\ diff_result = Some(git_queries[k].value)

\* the result of the query whose element in the git file has this tag
ResultOf(tag) ==
    CASE tag = "branch_diff" -> branch_diff_result
      [] tag = "uncommitted_changes" -> diff_result
      [] tag = "commits" -> logs_with_diffs_result

GitTags == {"branch_diff", "uncommitted_changes", "commits"}

\* the elements of the git file with this tag
SectionsOf(tag) ==
    {k \in 1..Len(git_file[1].sections) : git_file[1].sections[k].tag = tag}

\* C20 as stated: when a requested git query fails its section is omitted
\* from the git output: the git file contains an element for a query only if
\* that query succeeded, for any combination of the three queries
C20_FailedQueryOmitted ==
    git_file # None =>
        \A tag \in GitTags : SectionsOf(tag) # {} => Succeeded(ResultOf(tag))

\* C20 as amended: the git file is written only if a query succeeded; it
\* holds at most one element for each query; a query that succeeded has its
\* element with its content and its flag in the metadata, a query that failed
\* with an error message has an empty element that carries the message, and a
\* query that was not run has no element
C20_FailedQueryWithoutContent ==
    git_file # None =>
        /\ has_valid_git_data
        /\ \A tag \in GitTags :
              LET r == ResultOf(tag)
                  at == SectionsOf(tag)
              IN  /\ Cardinality(at) <= 1
                  /\ r = None => at = {}
                  /\ \A k \in at : git_file[1].sections[k].error = None => Succeeded(r)
                  /\ Succeeded(r) =>
                        \E k \in at : /\ git_file[1].sections[k].error = None
                                      /\ git_file[1].sections[k].body # <<>> \/ tag = "commits"
                  /\ (r # None /\ ~Succeeded(r) /\ Truthy(r[1].error)) =>
                        \E k \in at : /\ git_file[1].sections[k].error = r[1].error
                                      /\ git_file[1].sections[k].body = <<>>
        /\ \A k \in 1..Len(git_file[1].metadata) :
              /\ git_file[1].metadata[k] = "uncommitted_diffs_included" => Succeeded(diff_result)
              /\ git_file[1].metadata[k] = "branch_diff_included" => Succeeded(branch_diff_result)
              /\ git_file[1].metadata[k] = "commits_included" => Succeeded(logs_with_diffs_result)

\* the three queries were run: the branch was not found, the uncommitted diff
\* was read, the commit log timed out; the git file has been written
C20_Witness ==
    /\ git_file # None
    /\ branch_diff_result # None /\ ~Succeeded(branch_diff_result)
    /\ Succeeded(diff_result)
    /\ logs_with_diffs_result # None /\ ~Succeeded(logs_with_diffs_result)
    /\ Len(git_file[1].sections) = 3

----------------------------------------------------------------------------
(* Properties of unreadable files *)

\* the snippets of the written files, in the order written
WrittenSnippets == Flatten([k \in 1..Len(written) |-> written[k].content])

\* C21: a file that cannot be read does not stop the run; its record is
\* still created with the error marker as its content, it gets its id and its
\* place in a chunk, and every other file is processed as usual
C21_UnreadableFileKept ==
    /\ pc # "crash"
    /\ (pc = "done" /\ files # <<>>) =>
          /\ Len(WrittenSnippets) = Len(files)
          /\ \A i \in 1..Len(files) :
                /\ WrittenSnippets[i].src = i
                /\ WrittenSnippets[i].num = start_num + i - 1
                /\ WrittenSnippets[i].content = IF access[i] = "ok" THEN "text" ELSE Sentinel

----------------------------------------------------------------------------
(* Properties of the written text *)

\* C22: max_tokens is the most a written file holds: the estimate of the
\* whole text of every written file that is not an oversized singleton
\* (declaration, root tag, metadata, attachments, records and the newlines
\* between them) is at most max_tokens, whatever the number of records and
\* the lengths of the root tag and the folder path
C22_FileWithinMaxTokens ==
    \A k \in 1..Len(written) :
        ~OversizedSingleton(written[k]) =>
            estimate_tokens(FileTextLen(written[k])) <= max_tokens

----------------------------------------------------------------------------
(* Properties of the changed-only filter *)

\* the paths 'git status --porcelain' names, relative to the repository root:
\* one on each line, after the two status letters and a blank
GitReports(text) ==
    LET lines == SelectSeq(str_split(text, <<"\n">>), LAMBDA line : line # <<>>)
    IN  {status_filepath(lines[n]) : n \in 1..Len(lines)}

RepositoryRoot == <<"p", "/">>

\* the output of the status query of this run
StatusOutput ==
    LET n == CHOOSE n \in 1..Len(git_queries) : git_queries[n].query = "get_git_changed_files"
    IN  git_queries[n].stdout

Listed == pc \notin {"validate", "changed_only", "changed_files", "list", "exit1", "crash"}

\* C23: with --changed-only in a repository whose status query succeeds,
\* every processed file is a file git reports as staged, unstaged or
\* untracked; a file whose path only contains the path of a changed file, or
\* a part of it, is not processed.  Without a repository or without the
\* status the list is not filtered
C23_OnlyChangedFilesProcessed ==
    (changed_only /\ Listed) =>
        IF Succeeded(changed_result)
        THEN \A n \in 1..Len(paths) :
                \E cf \in GitReports(StatusOutput) : paths[n] = RepositoryRoot \o cf
        ELSE paths \in ChangedListings

----------------------------------------------------------------------------
(* Properties of a repeated compression *)

\* len(text.split('\n'))
LineCount(text) == Len(Split(text))

\* '//imports:' or '#imports:' and the blank line after the imports
ImportHeaderLines == 2

\* C24: for every tag and input, compressing what the compressor returned
\* once more with the same tag adds at most the lines of the import header:
\* lines(compress(compress(x))) <= lines(compress(x)) + delta
C24_SecondPassBounded ==
    (pc = "second" /\ Returned) => LineCount(result) <= LineCount(content) + ImportHeaderLines

\* the same for the compressors other than compress_python
C24_SecondPassBounded_NotPython ==
    (pc = "second" /\ Returned /\ language # "python") =>
        LineCount(result) <= LineCount(content) + ImportHeaderLines

----------------------------------------------------------------------------
(* Properties of the Kotlin body collection *)

\* the brace depth of the text after each of its first n lines
RECURSIVE DepthAfter(_, _)
DepthAfter(lines, n) ==
    IF n = 0 THEN 0 ELSE DepthAfter(lines, n - 1) + Braces(Strip(lines[n]))

\* the braces of the text nest, and its depth is 0 again at the end
Balanced(lines) ==
    /\ \A n \in 1..Len(lines) : DepthAfter(lines, n) >= 0
    /\ DepthAfter(lines, Len(lines)) = 0

\* the last thing extracted is the output of a function that has a body
FunctionUnitEmitted ==
    /\ cpc \in {"compress_kotlin", "return", "done"}
    /\ loc.f = "compress_kotlin"
    /\ loc.has_body
    /\ Len(loc.extracted) >= Len(LastOutput)
    /\ SubSeq(loc.extracted, Len(loc.extracted) - Len(LastOutput) + 1, Len(loc.extracted))
           = LastOutput

CollectingBody == cpc = "compress_kotlin:body"

\* C25: for Kotlin input whose brace depth is 0 again at the end of the
\* file, the collection of every function body terminates, and what is
\* emitted for a function with a body ends with a line that closes a brace
C25_BodyEndsWithClosingBrace ==
    /\ [](FunctionUnitEmitted /\ Balanced(loc.lines) =>
             Contains(LastOutput[Len(LastOutput)], "}"))
    /\ CollectingBody ~> ~CollectingBody

\* the function whose header is line h (counted from 0) has opened a brace
\* by line c, and its depth after line c
Opened(lines, h, c) == \E k \in h..c : Contains(Item(lines, k), "{")

RECURSIVE OwnDepth(_, _, _)
OwnDepth(lines, h, c) ==
    IF c < h THEN 0 ELSE OwnDepth(lines, h, c - 1) + Braces(Strip(Item(lines, c)))

\* the line on which the function's own depth is zero again, or the last
\* line of a text that ends before
ClosingLine(lines, h) ==
    LET closed == {c \in h..(Len(lines) - 1) :
                      Opened(lines, h, c) /\ OwnDepth(lines, h, c) <= 0}
    IN  IF closed = {} THEN Len(lines) - 1
        ELSE CHOOSE c \in closed : \A d \in closed : c <= d

\* the step that ends the collection of a body and emits the function
BodyCollected == CollectingBody /\ cpc' = "compress_kotlin"

\* C26: the collection of a function body stops at the line on which the
\* function's own brace depth is zero again: no later line is added to the
\* body or marked as consumed, also when the body opens and closes on the
\* signature line
C26_CollectionStopsAtClosingLine ==
    [][BodyCollected =>
          \A n \in loc'.processed_lines : n <= ClosingLine(loc.lines, loc.i)]_vars

\* the main loop examines the line it is at: the line is not skipped as
\* processed, as a comment, as blank or as the content of an init block, so
\* the iteration reaches "brace_depth += open_braces - close_braces"
LineExamined ==
    /\ cpc = "compress_kotlin"
    /\ loc.f = "compress_kotlin"
    /\ loc.i < Len(loc.lines)
    /\ KtBranch(loc) \notin {"processed", "skip", "comment_open", "comment_close",
                             "init_content"}

\* the examined line is a property declaration that reaches the property test
PropertyExamined ==
    /\ LineExamined
    /\ KtProperty(Strip(Item(loc.lines, loc.i)))
    /\ KtBranch(loc) \in {"property", "typealias", "other"}

\* C27: at every line the Kotlin main loop examines, the running brace-depth
\* counter equals the true brace nesting depth of the input up to and
\* including that line, so a property declaration is emitted when its true
\* depth is at most 2, whatever functions with bodies, init blocks or nested
\* declarations precede it, and is not emitted when its true depth exceeds 2
C27_BraceDepthIsNestingDepth ==
    [][/\ LineExamined => loc'.brace_depth = DepthAfter(loc.lines, loc.i + 1)
       /\ PropertyExamined =>
              (KtBranch(loc) = "property" <=> DepthAfter(loc.lines, loc.i + 1) <= 2)]_vars

\* a class-level property that follows two functions with bodies is examined
C27_PropertyAfterFunctions ==
    /\ PropertyExamined
    /\ DepthAfter(loc.lines, loc.i + 1) = 1
    /\ Cardinality({n \in 1..loc.i : KtFunction(Strip(loc.lines[n]))}) = 2

\* the branches of the main loop that recognise a declaration and emit it
DeclarationBranches ==
    {"enum_class", "sealed_class", "companion", "class", "interface", "function",
     "constructor", "property", "typealias"}

\* the main loop examines a recognized declaration while annotations are queued
DeclarationExamined ==
    /\ LineExamined
    /\ KtBranch(loc) \in DeclarationBranches
    /\ loc.pending_annotations # <<>>

\* C28: every queued Kotlin annotation is emitted exactly once, immediately
\* before the next recognized declaration that follows it, and is never
\* discarded: a step of the compressor other than the examination of a
\* declaration keeps the queue, and the examination of a declaration appends
\* the whole queue to the output and empties it
C28_AnnotationsBeforeNextDeclaration ==
    [][(cpc # "call" /\ loc.f = "compress_kotlin" /\ loc'.f = "compress_kotlin") =>
          IF DeclarationExamined
          THEN /\ loc'.pending_annotations = <<>>
               /\ Len(loc'.extracted) >= Len(KtFlush(loc).extracted)
               /\ SubSeq(loc'.extracted, 1, Len(KtFlush(loc).extracted))
                      = KtFlush(loc).extracted
          ELSE /\ Len(loc'.pending_annotations) >= Len(loc.pending_annotations)
               /\ SubSeq(loc'.pending_annotations, 1, Len(loc.pending_annotations))
                      = loc.pending_annotations]_vars

----------------------------------------------------------------------------
(* Properties of compress_python *)

\* pending_decorators after the first n lines, if the lines on the branches in
\* "kept" leave the queue alone and every other line but a decorator empties it
RECURSIVE DecoratorQueue(_, _, _)
DecoratorQueue(lines, n, kept) ==
    IF n = 0 THEN <<>>
    ELSE LET b == PyBranchOf(Strip(lines[n]))
         IN  IF b = "decorator" THEN Append(DecoratorQueue(lines, n - 1, kept), lines[n])
             ELSE IF b \in kept THEN DecoratorQueue(lines, n - 1, kept)
             ELSE <<>>

\* the main loop of compress_python is at line i
PythonLooping == cpc = "compress_python" /\ loc.f = "compress_python"

\* the main loop examines a class or function header
HeaderExamined ==
    /\ PythonLooping
    /\ loc.i < Len(loc.lines)
    /\ PyBranch \in {"class", "function"}

\* the examination of a header emits the whole queue, in its order, as the
\* last thing before the header, and empties it
HeaderEmitsQueue ==
    [][HeaderExamined =>
          /\ loc'.pending_decorators = <<>>
          /\ Len(loc'.extracted) >= Len(loc.extracted \o loc.pending_decorators)
          /\ SubSeq(loc'.extracted, 1, Len(loc.extracted \o loc.pending_decorators))
                 = loc.extracted \o loc.pending_decorators
          /\ cpc' = "compress_python" =>
                 loc'.extracted
                     = Append(loc.extracted \o loc.pending_decorators,
                              Item(loc.lines, loc.i))]_vars

\* C29: in the Python compressor a decorator line is emitted if and only if
\* no line other than a decorator, a class header or a function header stands
\* between it and the next class or function header: any other line empties
\* the queue, and the queue is emitted in its order immediately before the
\* header
C29_DecoratorQueue ==
    /\ [](PythonLooping =>
              loc.pending_decorators = DecoratorQueue(loc.lines, loc.i, {}))
    /\ HeaderEmitsQueue

\* C29, amended: blank lines, comment lines and import lines between a
\* decorator and the next header leave the queue alone; every other line that
\* is not a decorator or a header empties it, and the queue is emitted in its
\* order immediately before the header
C29_DecoratorQueueAmended ==
    /\ [](PythonLooping =>
              loc.pending_decorators
                  = DecoratorQueue(loc.lines, loc.i, {"skip", "import"}))
    /\ HeaderEmitsQueue

\* two decorators with a comment between them were emitted in their order in
\* front of a header
C29_Witness ==
    /\ PythonLooping
    /\ Len(loc.lines) = 4
    /\ loc.i = 4
    /\ PyBranchOf(Strip(loc.lines[1])) = "decorator"
    /\ PyBranchOf(Strip(loc.lines[2])) = "skip"
    /\ PyBranchOf(Strip(loc.lines[3])) = "decorator"
    /\ loc.lines[1] # loc.lines[3]
    /\ PyBranchOf(Strip(loc.lines[4])) \in {"class", "function"}
    /\ loc.extracted = <<loc.lines[1], loc.lines[3], loc.lines[4]>>

\* the parenthesis that is open at depth d before the line is closed within it
ClosesParen(line, d) ==
    \E k \in 1..Len(line) :
        /\ line[k] = ")"
        /\ d + Count(SubSeq(line, 1, k), "(") - Count(SubSeq(line, 1, k), ")") = 0

\* the line, from line n on where the depth is d, that holds the closing
\* parenthesis matching the first one opened; 0 if there is none
RECURSIVE ClosingParenLine(_, _, _)
ClosingParenLine(lines, n, d) ==
    IF n > Len(lines) THEN 0
    ELSE IF ClosesParen(lines[n], d) THEN n
    ELSE ClosingParenLine(lines, n + 1, d + Count(lines[n], "(") - Count(lines[n], ")"))

\* the step appends the signature of the function whose header is line i
SignatureEmitted ==
    /\ loc.f = "compress_python"
    /\ \/ cpc = "compress_python:signature" /\ cpc' = "compress_python"
       \/ /\ HeaderExamined
          /\ PyBranch = "function"
          /\ cpc' = "compress_python"

\* C30: the emitted signature of a Python function is the header line and all
\* following lines up to and including the line that holds the closing
\* parenthesis matching the opening parenthesis of the parameter list, also
\* when parameters contain nested parentheses
C30_SignatureThroughMatchingParen ==
    [][(SignatureEmitted /\ ClosingParenLine(loc.lines, loc.i + 1, 0) # 0) =>
          loc'.extracted[Len(loc'.extracted)]
              = Join(SubSeq(loc.lines, loc.i + 1,
                            ClosingParenLine(loc.lines, loc.i + 1, 0)))]_vars

\* the main loop handles the line it is at as the content of an init block
InitLineExamined ==
    /\ cpc = "compress_kotlin"
    /\ loc.f = "compress_kotlin"
    /\ loc.i < Len(loc.lines)
    /\ KtBranch(loc) = "init_content"

\* the header of the init block the main loop is in: the last init line before i
InitHeader ==
    CHOOSE h \in 0..(loc.i - 1) :
        /\ KtInit(Strip(Item(loc.lines, h)))
        /\ \A k \in (h + 1)..(loc.i - 1) : ~KtInit(Strip(Item(loc.lines, k)))

\* C31: a Kotlin init block ends at the line where its own brace depth is
\* zero again, where the header, the captured lines in order and one closing
\* brace are emitted as one unit; the block consumes no line after its own
\* closing brace, also when it opens and closes on one line
C31_InitBlockEndsAtClosingBrace ==
    [][InitLineExamined =>
          /\ loc.i <= ClosingLine(loc.lines, InitHeader)
          /\ OwnDepth(loc.lines, InitHeader, loc.i) <= 0 =>
                 /\ ~loc'.in_init_block
                 /\ loc'.extracted
                        = loc.extracted \o <<<<IND, "init", "{">>>> \o loc.init_content
                              \o <<<<IND, "}">>>>]_vars

\* the line that opens the body of the type declared on line h: the header
\* line, or the next line that is not blank or a comment if it starts with the
\* brace; -1 if the type has no body
BodyOpener(lines, h) ==
    IF Contains(Strip(Item(lines, h)), "{") THEN h
    ELSE LET next == {k \in (h + 1)..(Len(lines) - 1) :
                         /\ At(Strip(Item(lines, k)), 1) = "{"
                         /\ \A m \in (h + 1)..(k - 1) :
                                \/ Strip(Item(lines, m)) = <<>>
                                \/ StartsComment(Strip(Item(lines, m)))}
         IN  IF next = {} THEN -1 ELSE CHOOSE k \in next : TRUE

\* the lines of the body of the type declared on line h, after the line that
\* opens it and up to the line that closes it
OwnBody(lines, h) ==
    IF BodyOpener(lines, h) = -1 THEN {}
    ELSE {n \in (BodyOpener(lines, h) + 1)..ClosingLine(lines, h) : TRUE}

\* the class/object declaration lines nested directly in the body
DirectVariants(lines, h) ==
    {n \in OwnBody(lines, h) :
        KtClass(Strip(Item(lines, n))) /\ OwnDepth(lines, h, n - 1) = 1}

\* the loops of the sealed-type rule are running for the header on line i
InSealedRule ==
    /\ cpc \in {"compress_kotlin:sealed_open", "compress_kotlin:sealed_body"}
    /\ loc.f = "compress_kotlin"

\* C32: the lines captured after the header of a sealed class or interface
\* are exactly the class/object declaration lines nested directly in its body:
\* deeper declarations are not captured, and no line outside the body of the
\* sealed type is captured or consumed
C32_SealedCapturesDirectVariants ==
    [][InSealedRule =>
          /\ \A n \in loc'.processed_lines \ loc.processed_lines :
                 n = BodyOpener(loc.lines, loc.i) \/ n \in DirectVariants(loc.lines, loc.i)
          /\ loc'.extracted # loc.extracted =>
                 /\ loc.j \in DirectVariants(loc.lines, loc.i)
                 /\ loc'.extracted = Append(loc.extracted, Item(loc.lines, loc.j))
          /\ cpc' = "compress_kotlin" =>
                 DirectVariants(loc.lines, loc.i) \subseteq loc.processed_lines]_vars

----------------------------------------------------------------------------
(* Properties of compress_groovy *)

\* the loop handles the line it is at under "if in_dependencies:"
DependenciesLineExamined ==
    /\ cpc = "compress_groovy"
    /\ loc.f = "compress_groovy"
    /\ loc.i < Len(loc.lines)
    /\ loc.in_dependencies
    /\ LET stripped == Strip(Item(loc.lines, loc.i))
       IN  /\ ~(At(stripped, 1) = "//" \/ stripped = <<>>)
           /\ ~GroovyDependenciesStart(stripped)

\* the header of the dependencies block the loop is in
DependenciesHeader ==
    CHOOSE h \in 0..(loc.i - 1) :
        /\ GroovyDependenciesStart(Strip(Item(loc.lines, h)))
        /\ \A k \in (h + 1)..(loc.i - 1) :
               ~GroovyDependenciesStart(Strip(Item(loc.lines, k)))

\* no closing brace of the text comes before its opening brace
NeverNegative(lines) == \A n \in 1..Len(lines) : DepthAfter(lines, n) >= 0

\* C33: for input whose braces nest, dependency-block mode of the
\* Groovy/Gradle compressor ends exactly at
\* the line that closes the brace of the dependencies block itself, also when
\* the block is nested in another block or opens and closes on one line: at
\* that line one closing brace is emitted and the mode is left, before it only
\* dependency-verb lines are emitted, and no later line is handled in the mode
C33_DependenciesEndAtOwnBrace ==
    [][(DependenciesLineExamined /\ NeverNegative(loc.lines)) =>
          /\ loc.i <= ClosingLine(loc.lines, DependenciesHeader)
          /\ IF OwnDepth(loc.lines, DependenciesHeader, loc.i) <= 0
             THEN /\ ~loc'.in_dependencies
                  /\ loc'.extracted = Append(loc.extracted, <<"}">>)
             ELSE /\ loc'.in_dependencies
                  /\ loc'.extracted =
                         IF GroovyDependency(Strip(Item(loc.lines, loc.i)))
                         THEN Append(loc.extracted, Item(loc.lines, loc.i))
                         ELSE loc.extracted]_vars

----------------------------------------------------------------------------
(* Properties of compress_graphql *)

\* compress_graphql has returned; the locals hold what it returns
GraphQLReturned == cpc = "return" /\ loc.f = "compress_graphql"

\* a line is blank: empty or only whitespace
BlankLine(line) == Strip(line) = <<>>

\* the lines of a text; the empty text has none
LinesOf(text) == IF text = <<>> THEN <<>> ELSE Split(text)

\* C34: the output of the GraphQL compressor never contains two consecutive
\* blank lines and never starts or ends with a blank line, for every input,
\* also when blank lines are separated only by comment lines or docstrings
C34_NoBlankRuns ==
    GraphQLReturned =>
        LET out == LinesOf(loc.ret)
        IN  /\ \A n \in 1..(Len(out) - 1) : ~(BlankLine(out[n]) /\ BlankLine(out[n + 1]))
            /\ out # <<>> => ~BlankLine(out[1]) /\ ~BlankLine(out[Len(out)])

\* blank lines that only a comment and a docstring separate stood between two
\* kept lines, and the text ended with blank lines and a comment: one blank
\* line is left between the kept lines and none at the end
C34_Witness ==
    /\ GraphQLReturned
    /\ Len(loc.lines) = 10
    /\ BlankLine(loc.lines[2]) /\ BlankLine(loc.lines[4]) /\ BlankLine(loc.lines[6])
    /\ BlankLine(loc.lines[10])
    /\ LinesOf(loc.ret) = <<loc.lines[1], <<>>, loc.lines[7]>>

----------------------------------------------------------------------------
(* Properties of the line counts *)

\* the lines a compressor adds however many declarations the input has: the
\* header and the blank line of the import summary, and the blank line after
\* a package declaration
SmallConstant == ImportHeaderLines + 1

\* C35: the line count of a compressor's output exceeds the line count of its
\* input by at most a small constant that does not grow with the number of
\* functions, imports or other declarations in the input
C35_LineCountBounded ==
    (pc = "idle" /\ Returned) => LineCount(result) <= LineCount(content) + SmallConstant

----------------------------------------------------------------------------
(* Properties of the images section *)

\* C36: whenever at least one image file is selected, the image-metadata
\* section is written to the output, in chunk 1, also when no code file is
\* selected at all
C36_ImagesSectionWritten ==
    (pc = "done" /\ image_count > 0) =>
        /\ written # <<>>
        /\ written[1].images # None

----------------------------------------------------------------------------
(* Properties of the order of the Kotlin output *)

\* line n, after the line the main loop is at, was consumed by an earlier
\* iteration and is in the output already
EmittedAhead(n) ==
    /\ n \in loc.processed_lines
    /\ n > loc.i
    /\ \E k \in 1..Len(loc.extracted) : loc.extracted[k] = Item(loc.lines, n)

----------------------------------------------------------------------------
(* Properties of the accumulators of the packing loop *)

\* the packing loop is at the start of an iteration, or has ended
PackingOrAfter == pc \in {"pack", "write", "write_git", "done"}

\* C38: at the start of every iteration of the packing loop and after it ends
\* the accumulators agree with the pending chunk: current_tokens is the sum of
\* the estimated tokens of the records in current_chunk, chunk_file_count is
\* their number, and counter is the start number plus the number of records
\* consumed so far
C38_AccumulatorsAgree ==
    PackingOrAfter =>
        /\ current_tokens = ChunkTokens([content |-> current_chunk])
        /\ chunk_file_count = Len(current_chunk)
        /\ counter = start_num + idx

\* the loop has saved a chunk, put an oversized record in a chunk of its own
\* and accumulated two records
C38_Witness ==
    /\ pc = "pack"
    /\ Len(chunks) >= 2
    /\ large_standalone_files # <<>>
    /\ Len(current_chunk) >= 2

\* C39: the packer never produces an empty chunk: every entry appended to the
\* chunk list has file_count >= 1 and at least one record, also for inputs that
\* start or end with oversized records or hold consecutive oversized records
C39_NoEmptyChunk ==
    \A k \in 1..Len(chunks) :
        /\ chunks[k].file_count >= 1
        /\ Len(chunks[k].content) >= 1

\* the packing is over for an input that starts with two oversized records,
\* ends with one and has a record that is not oversized
C39_Witness ==
    /\ pc = "done"
    /\ Len(large_standalone_files) >= 3
    /\ large_standalone_files[1].code_num = start_num
    /\ large_standalone_files[2].code_num = start_num + 1
    /\ large_standalone_files[Len(large_standalone_files)].code_num
           = start_num + Len(files) - 1
    /\ Len(chunks) > Len(large_standalone_files)

====
